---- MODULE Spec2Model ----
(***************************************************************************)
(* A key-value server with time-to-live, an append-only operation log and  *)
(* periodic snapshots.  Two storage engines live in the repository:        *)
(*   - persistence::storage::Storage with AofManager and RdbManager        *)
(*     (src/src/persistence/*.rs), the one main.rs serves: Spec, and       *)
(*     SpecCalls for its clients without the jobs;                         *)
(*   - Storage of src/src/storage.rs (JSON log, try_write, key sweep):     *)
(*     SpecLegacy.                                                         *)
(* Both share the Table (a DashMap), the buffered log writer behind an     *)
(* RwLock, the log file and the snapshot file.                             *)
(* Further specifications follow one part of the served engine closely:   *)
(* SpecFiles the temporary files of snapshot and compaction, SpecFrames    *)
(* the bytes of AofManager's records, SpecStartup the steps of             *)
(* new_with_paths, SpecSweep and SpecLegacySweep the jobs run for ever     *)
(* under fairness, SpecFaults the jobs with I/O errors.                    *)
(*                                                                         *)
(* Time is a discrete clock.  A file is the sequence of records written to *)
(* it by write system calls; a process crash loses what is still in the    *)
(* BufWriter.  The BufWriter's flush on a full buffer (32 MiB, 8 KiB for   *)
(* storage.rs) is beyond the bounds and is not modelled.                   *)
(***************************************************************************)
EXTENDS Integers, Sequences, FiniteSets, TLC

\* ------------------------------------------------------------- bounds
NumClients == 2
NumKeys == 2
MaxTime == 1
MaxTtl == 1
\* calls of set and get: in a run with background jobs and crashes, and in
\* a run of the clients alone
MaxOps == 2
MaxCalls == 4
MaxJobs == 2
\* runs of the jobs of storage.rs
MaxLegacyJobs == 1
\* calls of set in a run that follows the temporary files
MaxFileOps == 1
\* connections served, and their calls of set and get
NumConns == 1
MaxConnOps == 3
MaxCrashes == 1
\* sync_counter's threshold, 1000 in aof.rs:49, scaled down so that the
\* eager sync happens within MaxOps appends.
SyncThreshold == 2

Clients == 1..NumClients
Conns == 1..NumConns
Keys == 1..NumKeys

\* Option<T>: None is the empty sequence, Some(x) a sequence of one element.
None == <<>>
Some(x) == <<x>>
Durations == {None} \cup {Some(d) : d \in 1..MaxTtl}

VARIABLES
    now,          \* SystemTime::now()
    data,         \* the Table: key -> Option<ValueEntry>
    pc,           \* each client's position in set / get
    req,          \* each client's call in progress
    ret,          \* the call that returned in the last step, and its result
    writer,       \* records in the BufWriter, not yet written to its file
    writerLive,   \* the writer's file is the one at the log path
    aofLock,      \* holder of the RwLock around the writer
    sync_counter, \* AofManager::sync_counter
    aofFile,      \* records of the file at the log path
    rdbFile,      \* entries of the file at the snapshot path
    syncPc,       \* the sync (flush) job
    rdbPc, rdbIdx, rdbSnap,    \* the snapshot job and its copy of the Table
    compPc, compIdx, compSnap, \* the compaction job and its copy
    nops, jobs, crashes,       \* budgets of the bounds
    dataLogged,   \* history: per key, the Table entry's record was logged
    lastRec,      \* history: per key, the last record handed to the writer
    lastRet,      \* history: per key, the entry of the last set that returned
    tableAtSync,  \* history: the Table at the last completed log sync
    compBase,     \* history: per key, the set a running compaction must keep
    solo,         \* history: per key, its callers and its run of plain sets
    expectLog,    \* history: the log a finished compaction and later appends make
    rdbTemp,      \* entries of the snapshot's temporary file
    aofTemp,      \* records of the compaction's temporary file
    wbytes,       \* bytes handed to the log writer, not yet written to its file
    bytesFile,    \* bytes of the file at the log path
    loaded,       \* result of AofManager::load_operations at startup
    phase,        \* Storage::new_with_paths: new, snapshot_loaded, loaded, running
    handler,      \* each connection's handle_client: position, request, value
    instants,     \* history: per capture, the Tables seen that agree with its copy
    counterLock   \* holder of the Mutex around sync_counter

clientVars == <<pc, req>>
logVars == <<writer, writerLive, aofLock, sync_counter, aofFile>>
syncVars == <<syncPc>>
rdbVars == <<rdbPc, rdbIdx, rdbSnap>>
compVars == <<compPc, compIdx, compSnap>>
budgetVars == <<nops, jobs, crashes>>
histVars == <<dataLogged, lastRec, lastRet, tableAtSync, compBase, solo>>
moreVars ==
    <<expectLog, rdbTemp, aofTemp, wbytes, bytesFile, loaded, phase, handler,
      instants, counterLock>>
vars == <<now, data, clientVars, ret, logVars, rdbFile, syncVars, rdbVars,
          compVars, budgetVars, histVars, moreVars>>

\* ------------------------------------------------------------- data model
\* persistence/mod.rs ValueEntry { value, expires_at }
ValueEntry(v, e) == [value |-> v, expires_at |-> e]

\* persistence/mod.rs Operation::Set { key, value, expires_at }
SetOp(k, entry) ==
    [op |-> "Set", key |-> k, value |-> entry.value,
     expires_at |-> entry.expires_at]

\* expiry.map(|duration| SystemTime::now() + duration)
ExpiresAt(d, t) == IF d = None THEN None ELSE Some(t + d[1])

\* a get that also takes an entry at its expiry instant for expired
IsExpiredAtBoundary(entry, t) ==
    /\ entry.expires_at # None
    /\ t >= entry.expires_at[1]

\* get: `SystemTime::now() > expires_at` on an entry with an expiry
IsExpired(entry, t) ==
    /\ entry.expires_at # None
    /\ t > entry.expires_at[1]

\* a load that takes every entry for live
IsLiveAlways(e, t) == TRUE

\* load and sweep: expires_at.map_or(true, |expires| now <= expires)
IsLive(e, t) == e = None \/ t <= e[1]

NoReq ==
    [op |-> "none", key |-> 0, entry |-> None, at |-> 0, logged |-> FALSE,
     base |-> None, old |-> None]
NoRet ==
    [client |-> 0, op |-> "none", key |-> 0, seen |-> None, at |-> 0,
     base |-> None, result |-> None, removed |-> None]

FreeLock == <<>>
ClientLock(c) == <<"client", c>>
SyncLock == <<"sync", 0>>

EmptyTable == [k \in Keys |-> None]

\* ------------------------------------------------------------- helpers
SetPcs == {"insert", "l_locked", "l_remove", "l_insert"}

\* a set on key k has been called and has not returned
SetInFlight(k) == \E c \in Clients : pc[c] \in SetPcs /\ req[c].key = k

\* what is known of key k when a get looks at it: the entry of the last set
\* that returned, unless a set on k is in flight
Base(k) == IF SetInFlight(k) THEN None ELSE Some(lastRet[k])

Known(opt) == [known |-> TRUE, entry |-> opt]
Unknown == [known |-> FALSE, entry |-> None]

Touch(c, k) == [solo EXCEPT ![k].users = @ \cup {c}]

NoSolo == [users |-> {}, plain |-> 0]

\* The log that a compaction without a concurrent append, and the appends
\* after it, make: unknown, being compacted, or known.
NoExpect == [state |-> "none", log |-> <<>>]
Compacting == [state |-> "compacting", log |-> <<>>]

\* an append of record r
Appended(expect, r) ==
    IF expect.state = "known"
    THEN [expect EXCEPT !.log = Append(@, r)]
    ELSE NoExpect

\* a compaction of the entries finishes
Compacted(expect, entries) ==
    IF expect.state = "compacting"
    THEN [state |-> "known",
          log |-> [i \in 1..Len(entries) |->
                      [op |-> "Set", key |-> entries[i].key,
                       value |-> entries[i].entry.value,
                       expires_at |-> entries[i].entry.expires_at]]]
    ELSE NoExpect

\* the run of sets without expiry that returned on a key, counted up to 2
Plain(n, entry) ==
    IF entry.expires_at # None THEN 0 ELSE IF n >= 2 THEN 2 ELSE n + 1

\* BufWriter::flush: the buffered records reach the file the writer holds,
\* which is the file at the log path unless a rename has replaced that.
Flushed(file, buf, live) == IF live THEN file \o buf ELSE file

\* an insert that keeps the entry a key already has
InsertIfAbsent(table, k, entry) ==
    IF table[k] = None THEN [table EXCEPT ![k] = Some(entry)] ELSE table

\* an eager sync that waits for one append more
EagerSyncLate(counter) == counter > SyncThreshold

\* append_operation: `if *counter >= 1000`
EagerSync(counter) == counter >= SyncThreshold

\* DashMap::insert: the entry replaces the one the key has, if any
Insert(table, k, entry) == [table EXCEPT ![k] = Some(entry)]

\* a write that goes to the file at the path itself
PathWrite(files, x) == [files EXCEPT !.path = Append(@, x)]

\* a write of x through the handle of the temporary file: the file at the
\* path is not touched
TempWrite(files, x) == [files EXCEPT !.temp = Append(@, x)]

\* one step of data.iter(): the entry of key k, if any, joins the copy
IterStep(snap, k) ==
    IF data[k] = None THEN snap
    ELSE Append(snap, [key |-> k, entry |-> data[k][1]])

\* ------------------------------------------------------------- log bytes
\* persistence/mod.rs Operation::Delete { key }
DeleteOp(k) == [op |-> "Delete", key |-> k]

\* bincode::serialize of an Operation, one byte per field: the variant, the
\* key, and for a Set the value and the Option of its expiry
serialize(o) ==
    IF o.op = "Set"
    THEN <<0, o.key, o.value>>
         \o (IF o.expires_at = None THEN <<0>> ELSE <<1, o.expires_at[1]>>)
    ELSE <<1, o.key>>

\* bincode::deserialize: Some(operation), or None for its error
deserialize(buf) ==
    IF Len(buf) = 4 /\ buf[1] = 0 /\ buf[4] = 0
    THEN Some(SetOp(buf[2], ValueEntry(buf[3], None)))
    ELSE IF Len(buf) = 5 /\ buf[1] = 0 /\ buf[4] = 1
    THEN Some(SetOp(buf[2], ValueEntry(buf[3], Some(buf[5]))))
    ELSE IF Len(buf) = 2 /\ buf[1] = 1
    THEN Some(DeleteOp(buf[2]))
    ELSE None

\* (serialized.len() as u32).to_le_bytes()
to_le_bytes(n) == [i \in 1..4 |-> (n \div (256 ^ (i - 1))) % 256]

\* u32::from_le_bytes(len_bytes)
from_le_bytes(b) == b[1] + 256 * b[2] + 65536 * b[3] + 16777216 * b[4]

\* what append_operation and compact write for one operation
Frame(o) == to_le_bytes(Len(serialize(o))) \o serialize(o)

RECURSIVE Frames(_)
Frames(ops) == IF ops = <<>> THEN <<>> ELSE Frame(Head(ops)) \o Frames(Tail(ops))

\* io::Result<Vec<Operation>> of load_operations
OkOps(ops) == [done |-> TRUE, ok |-> TRUE, ops |-> ops]
ErrOps == [done |-> TRUE, ok |-> FALSE, ops |-> <<>>]
NotLoaded == [done |-> FALSE, ok |-> FALSE, ops |-> <<>>]

\* load_operations 115-124: the loop ends when read_exact finds fewer than
\* four bytes; a payload shorter than announced and a payload that does not
\* deserialize return the error
RECURSIVE ReadRecords(_, _)
ReadRecords(rest, operations) ==
    IF Len(rest) < 4 THEN OkOps(operations)
    ELSE LET len == from_le_bytes(SubSeq(rest, 1, 4))
             body == SubSeq(rest, 5, Len(rest))
         IN IF Len(body) < len THEN ErrOps
            ELSE LET op == deserialize(SubSeq(body, 1, len))
                 IN IF op = None THEN ErrOps
                    ELSE ReadRecords(SubSeq(body, len + 1, Len(body)),
                                     Append(operations, op[1]))

\* The operations of the log a previous run wrote, and the images of its
\* file: the whole file, or the file cut at any byte by the end of that run.
ImageOps ==
    <<SetOp(1, ValueEntry(1, None)), SetOp(2, ValueEntry(2, Some(0))),
      DeleteOp(1)>>
LogImages == {SubSeq(Frames(ImageOps), 1, n) : n \in 0..Len(Frames(ImageOps))}

\* the operations whose records are whole in the first n bytes of the file
WholeOps(n) ==
    LET whole == {j \in 0..Len(ImageOps) :
                     Len(Frames(SubSeq(ImageOps, 1, j))) <= n}
        last == CHOOSE j \in whole : \A i \in whole : i <= j
    IN SubSeq(ImageOps, 1, last)

\* ------------------------------------------------------------- wire protocol
\* A buffer is the sequence of its characters; the two bytes "\r\n" are one
\* element, and a byte that is not UTF-8 is the element BadByte.
CRLF == "\r\n"
BadByte == "0xFF"
DigitChars == <<"0", "1", "2", "3", "4", "5", "6", "7", "8", "9">>
LowerChars == <<"p", "i", "n", "g", "e", "c", "h", "o", "s", "t", "x">>
UpperChars == <<"P", "I", "N", "G", "E", "C", "H", "O", "S", "T", "X">>

IsDigit(ch) == \E i \in 1..10 : DigitChars[i] = ch
DigitValue(ch) == (CHOOSE i \in 1..10 : DigitChars[i] = ch) - 1

\* str::to_uppercase
to_uppercase(s) ==
    [i \in 1..Len(s) |->
        IF \E j \in 1..Len(LowerChars) : LowerChars[j] = s[i]
        THEN UpperChars[CHOOSE j \in 1..Len(LowerChars) : LowerChars[j] = s[i]]
        ELSE s[i]]

\* str::parse::<usize> and ::<u64>: an optional '+', then one digit or more
RECURSIVE DigitsValue(_, _)
DigitsValue(s, acc) ==
    IF s = <<>> THEN acc
    ELSE DigitsValue(Tail(s), 10 * acc + DigitValue(Head(s)))

ParseNumber(s) ==
    LET digits == IF s # <<>> /\ Head(s) = "+" THEN Tail(s) ELSE s
    IN IF digits # <<>> /\ \A i \in 1..Len(digits) : IsDigit(digits[i])
       THEN Some(DigitsValue(digits, 0))
       ELSE None

\* str::split("\r\n")
RECURSIVE SplitLines(_)
SplitLines(s) ==
    IF \A i \in 1..Len(s) : s[i] # CRLF THEN <<s>>
    ELSE LET i == CHOOSE i \in 1..Len(s) :
                      s[i] = CRLF /\ \A j \in 1..(i - 1) : s[j] # CRLF
         IN <<SubSeq(s, 1, i - 1)>> \o SplitLines(SubSeq(s, i + 1, Len(s)))

\* Result<Option<Resp>> of Resp::parse; an Array holds the strings of its
\* BulkString elements
NoResp == [kind |-> "None"]
Array(items) == [kind |-> "Array", items |-> items]
ProtocolError(text) == [kind |-> "ProtocolError", text |-> <<text>>]

\* Resp::parse 47-64: the loop over the elements of the array
RECURSIVE ParseElements(_, _, _, _)
ParseElements(lines, current_line, remaining, array) ==
    IF remaining = 0 THEN Array(array)
    ELSE IF current_line > Len(lines) THEN ProtocolError("Incomplete array")
    ELSE IF lines[current_line] # <<>> /\ lines[current_line][1] = "$"
    THEN IF current_line + 1 > Len(lines)
         THEN ProtocolError("Incomplete bulk string")
         ELSE ParseElements(lines, current_line + 2, remaining - 1,
                            Append(array, lines[current_line + 1]))
    ELSE ProtocolError("Invalid array element")

\* Resp::parse
parse(input) ==
    IF input = <<>> THEN NoResp
    ELSE IF input[1] # "*" THEN ProtocolError("Unsupported RESP type")
    ELSE IF \E i \in 1..Len(input) : input[i] = BadByte
    THEN ProtocolError("Invalid UTF-8")
    ELSE LET lines == SplitLines(input)
             count == ParseNumber(Tail(lines[1]))
         IN IF count = None THEN ProtocolError("Invalid array length")
            ELSE ParseElements(lines, 2, count[1], <<>>)

\* Result<Command> of Command::from_resp
Ping == [kind |-> "Ping"]
Echo(message) == [kind |-> "Echo", message |-> message]
SetCmd(k, v, expiry) ==
    [kind |-> "Set", key |-> k, value |-> v, expiry |-> expiry]
GetCmd(k) == [kind |-> "Get", key |-> k]
CommandError(text) == [kind |-> "CommandError", text |-> <<text>>]

wPING == <<"P", "I", "N", "G">>
wECHO == <<"E", "C", "H", "O">>
wSET == <<"S", "E", "T">>
wGET == <<"G", "E", "T">>
wPX == <<"P", "X">>

\* Command::from_resp on the Array that Resp::parse made
from_resp(items) ==
    IF items = <<>> THEN CommandError("Empty command")
    ELSE LET command == to_uppercase(Head(items))
             args == Tail(items)
         IN IF command = wPING THEN Ping
            ELSE IF command = wECHO
            THEN IF Len(args) # 1
                 THEN CommandError("ECHO requires exactly one argument")
                 ELSE Echo(args[1])
            ELSE IF command = wSET
            THEN IF Len(args) = 2 THEN SetCmd(args[1], args[2], None)
                 ELSE IF Len(args) = 4
                 THEN IF to_uppercase(args[3]) = wPX
                      THEN IF ParseNumber(args[4]) # None
                           THEN SetCmd(args[1], args[2], ParseNumber(args[4]))
                           ELSE CommandError("Invalid PX value")
                      ELSE CommandError("Invalid SET option")
                 ELSE CommandError("Wrong number of SET arguments")
            ELSE IF command = wGET
            THEN IF Len(args) # 1
                 THEN CommandError("GET requires exactly one argument")
                 ELSE GetCmd(args[1])
            ELSE [kind |-> "CommandError",
                  text |-> <<"Unknown command: ">> \o command]

\* Resp, the replies
SimpleString(s) == [kind |-> "SimpleString", text |-> s]
BulkString(s) == [kind |-> "BulkString", text |-> s]
ErrorReply(text) == [kind |-> "Error", text |-> <<text>>]
Null == [kind |-> "Null"]

\* The names of the keys and the texts of the values on the wire: key k is
\* the string "k<k>", a value is the numeral of its number.
Numeral(n) == <<DigitChars[n + 1]>>
KeyName(k) == <<"k">> \o Numeral(k)
KeyOf(name) == CHOOSE k \in Keys : KeyName(k) = name

\* what a client writes for a request of the given strings
RECURSIVE Bulks(_)
Bulks(items) ==
    IF items = <<>> THEN <<>>
    ELSE <<"$">> \o Numeral(Len(Head(items))) \o <<CRLF>> \o Head(items)
             \o <<CRLF>> \o Bulks(Tail(items))
Encode(items) == <<"*">> \o Numeral(Len(items)) \o <<CRLF>> \o Bulks(items)

\* A request: its bytes, what the grammar of the commands makes of its
\* strings (shape), and whether its framing is as the protocol has it.
Req(bytes, shape, framing) ==
    [bytes |-> bytes, shape |-> shape, framing |-> framing]

\* requests of the grammar, with value v for a SET
CoreRequests(v) ==
    {Req(Encode(<<wPING>>), "ping", "ok"),
     Req(Encode(<<wECHO, <<"h", "e", "y">>>>), "echo", "ok"),
     Req(Encode(<<wSET, KeyName(2), Numeral(v), wPX, Numeral(1)>>),
         "set_px", "ok"),
     Req(Encode(<<<<"s", "e", "t">>, KeyName(1), Numeral(v),
                  <<"p", "x">>, Numeral(0)>>), "set_px", "ok")}
    \cup {Req(Encode(<<wGET, KeyName(k)>>), "get", "ok") : k \in Keys}
    \cup {Req(Encode(<<wSET, KeyName(k), Numeral(v)>>), "set", "ok") :
             k \in Keys}

GoodRequests(v) ==
    CoreRequests(v)
    \cup {Req(Encode(<<<<"p", "I", "n", "g">>>>), "ping", "ok"),
          Req(Encode(<<<<"e", "c", "h", "o">>, <<"h", "e", "y">>>>),
              "echo", "ok"),
          Req(Encode(<<<<"g", "e", "t">>, KeyName(1)>>), "get", "ok"),
          Req(Encode(<<wSET, KeyName(1), Numeral(v), wPX, Numeral(1)>>),
              "set_px", "ok")}

\* requests of well-formed framing that the grammar has no command for
BadCommands ==
    {Req(Encode(<<>>), "empty", "ok"),
     Req(Encode(<<wPING, <<"h", "e", "y">>>>), "ping_args", "ok"),
     Req(Encode(<<wECHO>>), "echo_args", "ok"),
     Req(Encode(<<wECHO, <<"a">>, <<"b">>>>), "echo_args", "ok"),
     Req(Encode(<<wGET>>), "get_args", "ok"),
     Req(Encode(<<wGET, KeyName(1), KeyName(2)>>), "get_args", "ok"),
     Req(Encode(<<wSET, KeyName(1)>>), "set_args", "ok"),
     Req(Encode(<<wSET, KeyName(1), Numeral(4), wPX>>), "set_args", "ok"),
     Req(Encode(<<wSET, KeyName(1), Numeral(4), wPX, Numeral(1),
                  Numeral(1)>>), "set_args", "ok"),
     Req(Encode(<<wSET, KeyName(1), Numeral(4), <<"E", "X">>, Numeral(1)>>),
         "set_option", "ok"),
     Req(Encode(<<wSET, KeyName(1), Numeral(4), wPX, <<"x">>>>),
         "set_number", "ok"),
     Req(Encode(<<wSET, KeyName(1), Numeral(4), wPX, <<"-", "1">>>>),
         "set_number", "ok"),
     Req(Encode(<<<<"F", "O", "O">>>>), "unknown", "ok")}

\* buffers of malformed framing
BadFrames ==
    {Req(<<"+", "O", "K", CRLF>>, "none", "first_byte"),
     Req(<<"*", "x", CRLF>>, "none", "count"),
     Req(<<"*", "1", BadByte, CRLF>>, "none", "utf8"),
     Req(<<"*", "2", CRLF>> \o Bulks(<<wGET>>), "none", "fewer_elements"),
     Req(<<"*", "1", CRLF, "+">> \o wPING \o <<CRLF>>, "none", "element_tag"),
     Req(<<"*", "1", CRLF, "$", "x", CRLF>> \o wPING \o <<CRLF>>,
         "ping", "bulk_length"),
     Req(<<"*", "1", CRLF, "$", "5", CRLF>> \o wPING \o <<CRLF>>,
         "ping", "bulk_short"),
     Req(<<"*", "1", CRLF, "$", "2", CRLF>> \o wPING \o <<CRLF>>,
         "ping", "bulk_long")}

EmptyBuffer == Req(<<>>, "none", "empty")

\* a connection that has read nothing
IdleHandler == [at |-> "idle", request |-> EmptyBuffer, value |-> NoResp]

\* ------------------------------------------------------------- captures
\* the Table a copy made by data.iter() amounts to
TableOf(snap) ==
    [k \in Keys |->
        IF \E i \in 1..Len(snap) : snap[i].key = k
        THEN Some(snap[CHOOSE i \in 1..Len(snap) : snap[i].key = k].entry)
        ELSE None]

\* Table t has, for the first idx keys, what the copy took
Agrees(t, snap, idx) == \A k \in 1..idx : t[k] = TableOf(snap)[k]

NoInstants == [rdb |-> {}, comp |-> {}]

\* history: the Table has become t while captures may be running
Instant(t) ==
    [rdb |-> IF rdbPc = "iter" /\ rdbIdx < NumKeys
                  /\ Agrees(t, rdbSnap, rdbIdx)
             THEN instants.rdb \cup {t} ELSE instants.rdb,
     comp |-> IF compPc = "iter" /\ compIdx < NumKeys
                   /\ Agrees(t, compSnap, compIdx)
              THEN instants.comp \cup {t} ELSE instants.comp]

\* history: a capture has copied the next key
Copied(seen, started, snap, idx) ==
    {t \in (IF started THEN seen ELSE {data}) : Agrees(t, snap, idx)}

\* ------------------------------------------------------------- startup
\* load_persistent_data, first loop: the snapshot's entries that are live
RECURSIVE LoadSnapshot(_, _, _)
LoadSnapshot(table, entries, t) ==
    IF entries = <<>> THEN table
    ELSE LET e == Head(entries)
             next == IF IsLive(e.entry.expires_at, t)
                     THEN [table EXCEPT ![e.key] = Some(e.entry)]
                     ELSE table
         IN LoadSnapshot(next, Tail(entries), t)

\* load_persistent_data, second loop: the logged operations in file order
RECURSIVE ReplayOps(_, _, _)
ReplayOps(table, ops, t) ==
    IF ops = <<>> THEN table
    ELSE LET o == Head(ops)
             next == IF o.op = "Set"
                     THEN IF IsLive(o.expires_at, t)
                          THEN [table EXCEPT ![o.key] =
                                    Some(ValueEntry(o.value, o.expires_at))]
                          ELSE table
                     ELSE [table EXCEPT ![o.key] = None]
         IN ReplayOps(next, Tail(ops), t)

load_persistent_data(rdb, aof, t) ==
    ReplayOps(LoadSnapshot(EmptyTable, rdb, t), aof, t)

\* The log a previous run may have left: none, or the records of `set 1 v`,
\* of a `set 1 v' PX ..` whose entry expires at time 0, and of `set 2 v''`.
PriorLogs ==
    {<<>>,
     <<SetOp(1, ValueEntry(1, None)), SetOp(1, ValueEntry(2, Some(0))),
       SetOp(2, ValueEntry(3, None))>>}

\* Storage::new_with_paths on the files of the previous run
Init ==
    /\ now = 0
    /\ aofFile \in PriorLogs
    /\ data = load_persistent_data(<<>>, aofFile, 0)
    /\ pc = [c \in Clients |-> "idle"]
    /\ req = [c \in Clients |-> NoReq]
    /\ ret = NoRet
    /\ writer = <<>>
    /\ writerLive = TRUE
    /\ aofLock = FreeLock
    /\ sync_counter = 0
    /\ rdbFile = <<>>
    /\ syncPc = "idle"
    /\ rdbPc = "idle" /\ rdbIdx = 0 /\ rdbSnap = <<>>
    /\ compPc = "idle" /\ compIdx = 0 /\ compSnap = <<>>
    /\ nops = 0 /\ jobs = 0 /\ crashes = 0
    /\ dataLogged = [k \in Keys |-> TRUE]
    /\ lastRec = [k \in Keys |-> None]
    /\ lastRet = [k \in Keys |-> Known(data[k])]
    /\ tableAtSync = data
    /\ compBase = [k \in Keys |-> None]
    /\ solo = [k \in Keys |-> NoSolo]
    /\ expectLog = NoExpect
    /\ rdbTemp = <<>>
    /\ aofTemp = <<>>
    /\ wbytes = <<>>
    /\ bytesFile = <<>>
    /\ loaded = NotLoaded
    /\ phase = "running"
    /\ handler = [c \in Clients |-> IdleHandler]
    /\ instants = NoInstants
    /\ counterLock = FreeLock

\* ------------------------------------------------------------- clock
Tick ==
    /\ now < MaxTime
    /\ now' = now + 1
    /\ ret' = NoRet
    /\ UNCHANGED <<counterLock, instants, handler, phase, loaded, bytesFile,
                   wbytes, aofTemp, rdbTemp,
                   expectLog, data, clientVars, logVars, rdbFile, syncVars,
                   rdbVars, compVars, budgetVars, histVars>>

\* ------------------------------------------------------------- get
\* Storage::get up to its return or to drop(ref_multi)
\* (persistence/storage.rs 145-158 and storage.rs 193-206 are the same code)
get(c, k) ==
    /\ pc[c] = "idle"
    /\ nops' = nops + 1
    /\ solo' = Touch(c, k)
    /\ IF data[k] # None /\ IsExpired(data[k][1], now)
       THEN /\ pc' = [pc EXCEPT ![c] = "remove"]
            /\ req' = [req EXCEPT ![c] =
                          [op |-> "get", key |-> k, entry |-> data[k],
                           at |-> now, logged |-> FALSE, base |-> Base(k),
                           old |-> None]]
            /\ ret' = NoRet
            /\ UNCHANGED lastRet
       ELSE /\ ret' = [client |-> c, op |-> "get", key |-> k,
                       seen |-> data[k], at |-> now, base |-> Base(k),
                       result |-> IF data[k] = None THEN None
                                  ELSE Some(data[k][1].value),
                       removed |-> None]
            /\ lastRet' = IF data[k] = None /\ ~SetInFlight(k)
                          THEN [lastRet EXCEPT ![k] = Known(None)]
                          ELSE lastRet
            /\ UNCHANGED <<pc, req>>
    /\ UNCHANGED <<counterLock, instants, handler, phase, loaded, bytesFile,
                   wbytes, aofTemp, rdbTemp,
                   expectLog, now, data, logVars, rdbFile, syncVars, rdbVars,
                   compVars, jobs, crashes, dataLogged, lastRec, tableAtSync,
                   compBase>>

\* Storage::get after drop(ref_multi): self.data.remove(key); Ok(None)
get_remove(c) ==
    /\ pc[c] = "remove"
    /\ LET k == req[c].key
           \* no set on k was called or returned while the get ran
           quiet == ~SetInFlight(k) /\ req[c].base = Some(lastRet[k])
       IN
        /\ data' = [data EXCEPT ![k] = None]
        /\ ret' = [client |-> c, op |-> "get", key |-> k,
                   seen |-> req[c].entry, at |-> req[c].at,
                   base |-> IF quiet THEN req[c].base ELSE None,
                   result |-> None, removed |-> data[k]]
        /\ lastRet' = IF quiet THEN [lastRet EXCEPT ![k] = Known(None)]
                      ELSE lastRet
    /\ pc' = [pc EXCEPT ![c] = "idle"]
    /\ req' = [req EXCEPT ![c] = NoReq]
    /\ instants' = Instant(data')
    /\ UNCHANGED <<counterLock, handler, phase, loaded, bytesFile, wbytes,
                   aofTemp, rdbTemp,
                   expectLog, now, logVars, rdbFile, syncVars, rdbVars,
                   compVars, budgetVars, dataLogged, lastRec, tableAtSync,
                   compBase, solo>>

\* ------------------------------------------------------------- set
\* The value of a set call.  The program never inspects a value, so each
\* call writes a fresh one: the number of the call, after the values of the
\* prior log.
FreshValue == nops + 4

\* persistence Storage::set 132-139 with AofManager::append_operation: the
\* expiry, the Operation, then under the writer lock (write().await waits
\* until it is free) the record, the counter and the eager flush and fsync
append_operation(c, k, d) ==
    /\ pc[c] = "idle"
    /\ aofLock = FreeLock
    /\ nops' = nops + 1
    /\ LET entry == ValueEntry(FreshValue, ExpiresAt(d, now))
           buf == Append(writer, SetOp(k, entry))
       IN /\ req' = [req EXCEPT ![c] =
                        [op |-> "set", key |-> k, entry |-> Some(entry),
                         at |-> now, logged |-> TRUE, base |-> None,
                         old |-> None]]
          /\ lastRec' = [lastRec EXCEPT ![k] = Some(entry)]
          /\ expectLog' = Appended(expectLog, SetOp(k, entry))
          /\ IF EagerSync(sync_counter + 1)
             THEN /\ aofFile' = Flushed(aofFile, buf, writerLive)
                  /\ writer' = <<>>
                  /\ sync_counter' = 0
                  /\ tableAtSync' = data
             ELSE /\ writer' = buf
                  /\ sync_counter' = sync_counter + 1
                  /\ UNCHANGED <<aofFile, tableAtSync>>
    /\ pc' = [pc EXCEPT ![c] = "insert"]
    /\ ret' = NoRet
    /\ solo' = Touch(c, k)
    /\ compBase' = [compBase EXCEPT ![k] = None]
    /\ UNCHANGED <<counterLock, instants, handler, phase, loaded, bytesFile,
                   wbytes, aofTemp, rdbTemp, now,
                   data, writerLive, aofLock, rdbFile, syncVars, rdbVars,
                   compVars, jobs, crashes, dataLogged, lastRet>>

\* persistence Storage::set 140: self.data.insert(key, ValueEntry {..})
set_insert(c) ==
    /\ pc[c] = "insert"
    /\ LET k == req[c].key
           e == req[c].entry
       IN /\ data' = Insert(data, k, e[1])
          /\ dataLogged' = [dataLogged EXCEPT ![k] = req[c].logged]
          /\ ret' = [client |-> c, op |-> "set", key |-> k, seen |-> e,
                     at |-> req[c].at, base |-> None, result |-> None,
                     removed |-> None]
          /\ lastRet' = [lastRet EXCEPT ![k] = Known(e)]
          /\ solo' = [solo EXCEPT ![k].plain = Plain(@, e[1])]
    /\ pc' = [pc EXCEPT ![c] = "idle"]
    /\ req' = [req EXCEPT ![c] = NoReq]
    /\ instants' = Instant(data')
    /\ UNCHANGED <<counterLock, handler, phase, loaded, bytesFile, wbytes,
                   aofTemp, rdbTemp,
                   expectLog, now, logVars, rdbFile, syncVars, rdbVars,
                   compVars, budgetVars, lastRec, tableAtSync, compBase>>

\* ------------------------------------------------------------- log sync
\* AofManager::sync, called by the sync job (persistence/storage.rs 98-107):
\* under the writer lock, flush and sync_all
sync ==
    /\ jobs < MaxJobs
    /\ aofLock = FreeLock
    /\ jobs' = jobs + 1
    /\ aofFile' = Flushed(aofFile, writer, writerLive)
    /\ writer' = <<>>
    /\ tableAtSync' = data
    /\ ret' = NoRet
    /\ UNCHANGED <<counterLock, instants, handler, phase, loaded, bytesFile,
                   wbytes, aofTemp, rdbTemp,
                   expectLog, now, data, clientVars, writerLive, aofLock,
                   sync_counter, rdbFile, syncVars, rdbVars, compVars, nops,
                   crashes, dataLogged, lastRec, lastRet, compBase, solo>>

\* ------------------------------------------------------------- snapshot
\* the snapshot job's data.iter()...collect() (persistence/storage.rs 86-90),
\* one entry per step
rdb_snapshot_step ==
    /\ \/ rdbPc = "idle" /\ jobs < MaxJobs
       \/ rdbPc = "iter" /\ rdbIdx < NumKeys
    /\ jobs' = IF rdbPc = "idle" THEN jobs + 1 ELSE jobs
    /\ rdbPc' = "iter"
    /\ rdbIdx' = rdbIdx + 1
    /\ rdbSnap' = IterStep(rdbSnap, rdbIdx + 1)
    /\ ret' = NoRet
    /\ instants' = [instants EXCEPT !.rdb =
                       Copied(@, rdbPc = "iter", rdbSnap', rdbIdx')]
    /\ UNCHANGED <<counterLock, handler, phase, loaded, bytesFile, wbytes,
                   aofTemp, rdbTemp,
                   expectLog, now, data, clientVars, logVars, rdbFile,
                   syncVars, compVars, nops, crashes, histVars>>

\* RdbManager::save: the entries to the temporary file, renamed over the
\* snapshot path
save ==
    /\ rdbPc = "iter"
    /\ rdbIdx = NumKeys
    /\ rdbFile' = rdbSnap
    /\ rdbPc' = "idle"
    /\ rdbIdx' = 0
    /\ rdbSnap' = <<>>
    /\ ret' = NoRet
    /\ instants' = [instants EXCEPT !.rdb = {}]
    /\ UNCHANGED <<counterLock, handler, phase, loaded, bytesFile, wbytes,
                   now, data, clientVars,
                   logVars, syncVars, compVars, budgetVars, histVars, rdbTemp,
                   aofTemp, expectLog>>

\* RdbManager::save in its steps.  Line 21 (save_rdb 114 of storage.rs):
\* File::create makes the temporary file, or truncates the one it finds
save_create ==
    /\ rdbPc = "iter"
    /\ rdbIdx = NumKeys
    /\ rdbTemp' = <<>>
    /\ rdbPc' = "write"
    /\ ret' = NoRet
    /\ instants' = [instants EXCEPT !.rdb = {}]
    /\ UNCHANGED <<counterLock, handler, phase, loaded, bytesFile, wbytes,
                   now, data, clientVars,
                   logVars, rdbFile, syncVars, rdbIdx, rdbSnap, compVars,
                   budgetVars, histVars, aofTemp, expectLog>>

\* RdbManager::save 22-24: the entries go through the BufWriter to the
\* temporary file, one write per entry
save_write ==
    /\ rdbPc = "write"
    /\ Len(rdbTemp) < Len(rdbSnap)
    /\ LET f == TempWrite([temp |-> rdbTemp, path |-> rdbFile],
                          rdbSnap[Len(rdbTemp) + 1])
       IN rdbTemp' = f.temp /\ rdbFile' = f.path
    /\ ret' = NoRet
    /\ UNCHANGED <<counterLock, instants, handler, phase, loaded, bytesFile,
                   wbytes, now, data, clientVars,
                   logVars, syncVars, rdbVars, compVars, budgetVars, histVars,
                   aofTemp, expectLog>>

\* RdbManager::save 26: the temporary file is renamed over the snapshot path
save_rename ==
    /\ rdbPc = "write"
    /\ Len(rdbTemp) = Len(rdbSnap)
    /\ rdbFile' = rdbTemp
    /\ rdbTemp' = <<>>
    /\ rdbPc' = "idle"
    /\ rdbIdx' = 0
    /\ rdbSnap' = <<>>
    /\ ret' = NoRet
    /\ UNCHANGED <<counterLock, instants, handler, phase, loaded, bytesFile,
                   wbytes, now, data, clientVars,
                   logVars, syncVars, compVars, budgetVars, histVars, aofTemp,
                   expectLog>>

\* ------------------------------------------------------------- compaction
\* what a starting compaction owes each key: the entry of the last set that
\* returned, when no set on the key is in flight
CompactionBase ==
    [k \in Keys |->
        IF lastRet[k].known /\ ~SetInFlight(k) THEN lastRet[k].entry
        ELSE None]

\* the compaction job's data.iter()...collect() (persistence/storage.rs
\* 113-117), one entry per step
compact_snapshot_step ==
    /\ \/ compPc = "idle" /\ jobs < MaxJobs
       \/ compPc = "iter" /\ compIdx < NumKeys
    /\ jobs' = IF compPc = "idle" THEN jobs + 1 ELSE jobs
    /\ compBase' = IF compPc = "idle" THEN CompactionBase ELSE compBase
    /\ expectLog' = IF compPc # "idle" THEN expectLog
                    ELSE IF \E c \in Clients : pc[c] = "l_locked"
                         THEN NoExpect ELSE Compacting
    /\ compPc' = "iter"
    /\ compIdx' = compIdx + 1
    /\ compSnap' = IterStep(compSnap, compIdx + 1)
    /\ ret' = NoRet
    /\ instants' = [instants EXCEPT !.comp =
                       Copied(@, compPc = "iter", compSnap', compIdx')]
    /\ UNCHANGED <<counterLock, handler, phase, loaded, bytesFile, wbytes,
                   aofTemp, rdbTemp, now,
                   data, clientVars, logVars, rdbFile, syncVars, rdbVars,
                   nops, crashes, dataLogged, lastRec, lastRet, tableAtSync,
                   solo>>

\* AofManager::compact 77-87: one Set record per entry
CompactRecords(entries) ==
    [i \in 1..Len(entries) |-> SetOp(entries[i].key, entries[i].entry)]

\* AofManager::compact 67-99: the records to the temporary file, flush,
\* fsync, rename over the log path, a new handle on the renamed file.  The
\* live writer still holds the replaced file.
compact_rename ==
    /\ compPc = "iter"
    /\ compIdx = NumKeys
    /\ aofFile' = CompactRecords(compSnap)
    /\ writerLive' = FALSE
    /\ compPc' = "renamed"
    /\ ret' = NoRet
    /\ instants' = [instants EXCEPT !.comp = {}]
    /\ UNCHANGED <<counterLock, handler, phase, loaded, bytesFile, wbytes,
                   now, data, clientVars,
                   writer, aofLock, sync_counter, rdbFile, syncVars, rdbVars,
                   compIdx, compSnap, budgetVars, histVars, rdbTemp, aofTemp,
                   expectLog>>

\* AofManager::compact in its steps.  Lines 69-75: the temporary file is
\* created, or truncated
compact_create ==
    /\ compPc = "iter"
    /\ compIdx = NumKeys
    /\ aofTemp' = <<>>
    /\ compPc' = "write"
    /\ ret' = NoRet
    /\ instants' = [instants EXCEPT !.comp = {}]
    /\ UNCHANGED <<counterLock, handler, phase, loaded, bytesFile, wbytes,
                   now, data, clientVars,
                   logVars, rdbFile, syncVars, rdbVars, compIdx, compSnap,
                   budgetVars, histVars, rdbTemp, expectLog>>

\* AofManager::compact 77-87: one record per entry to the temporary file
compact_write ==
    /\ compPc = "write"
    /\ Len(aofTemp) < Len(compSnap)
    /\ LET f == TempWrite([temp |-> aofTemp, path |-> aofFile],
                          CompactRecords(compSnap)[Len(aofTemp) + 1])
       IN aofTemp' = f.temp /\ aofFile' = f.path
    /\ ret' = NoRet
    /\ UNCHANGED <<counterLock, instants, handler, phase, loaded, bytesFile,
                   wbytes, now, data, clientVars,
                   writer, writerLive, aofLock, sync_counter, rdbFile,
                   syncVars, rdbVars, compVars, budgetVars, histVars, rdbTemp,
                   expectLog>>

\* AofManager::compact 89-99: flush, fsync, rename of the temporary file
\* over the log path, a new handle on the renamed file
compact_rename_temp ==
    /\ compPc = "write"
    /\ Len(aofTemp) = Len(compSnap)
    /\ aofFile' = aofTemp
    /\ aofTemp' = <<>>
    /\ writerLive' = FALSE
    /\ compPc' = "renamed"
    /\ ret' = NoRet
    /\ UNCHANGED <<counterLock, instants, handler, phase, loaded, bytesFile,
                   wbytes, now, data, clientVars,
                   writer, aofLock, sync_counter, rdbFile, syncVars, rdbVars,
                   compIdx, compSnap, budgetVars, histVars, rdbTemp,
                   expectLog>>

\* AofManager::compact 101-104: under the writer lock, *writer = BufWriter
\* on the new handle; the old BufWriter is dropped, which flushes it to the
\* file it holds
compact_reopen ==
    /\ compPc = "renamed"
    /\ aofLock = FreeLock
    /\ aofFile' = Flushed(aofFile, writer, writerLive)
    /\ writer' = <<>>
    /\ writerLive' = TRUE
    /\ compPc' = "idle"
    /\ compIdx' = 0
    /\ compSnap' = <<>>
    /\ compBase' = [k \in Keys |-> None]
    /\ expectLog' = Compacted(expectLog, compSnap)
    /\ ret' = NoRet
    /\ UNCHANGED <<counterLock, instants, handler, phase, loaded, bytesFile,
                   wbytes, aofTemp, rdbTemp, now,
                   data, clientVars, aofLock, sync_counter, rdbFile, syncVars,
                   rdbVars, budgetVars, dataLogged, lastRec, lastRet,
                   tableAtSync, solo>>

\* ------------------------------------------------------------- crash
\* The process dies and Storage::new_with_paths runs again: AofManager::new
\* on the log path, load_persistent_data, start_background_tasks.
crash_restart ==
    /\ crashes < MaxCrashes
    /\ crashes' = crashes + 1
    /\ data' = load_persistent_data(rdbFile, aofFile, now)
    /\ pc' = [c \in Clients |-> "idle"]
    /\ req' = [c \in Clients |-> NoReq]
    /\ ret' = NoRet
    /\ writer' = <<>>
    /\ writerLive' = TRUE
    /\ aofLock' = FreeLock
    /\ sync_counter' = 0
    /\ syncPc' = "idle"
    /\ rdbPc' = "idle" /\ rdbIdx' = 0 /\ rdbSnap' = <<>>
    /\ compPc' = "idle" /\ compIdx' = 0 /\ compSnap' = <<>>
    /\ dataLogged' = [k \in Keys |-> TRUE]
    /\ lastRec' = [k \in Keys |-> None]
    /\ lastRet' = [k \in Keys |-> Unknown]
    /\ tableAtSync' = data'
    /\ compBase' = [k \in Keys |-> None]
    /\ solo' = [k \in Keys |-> NoSolo]
    /\ expectLog' = NoExpect
    /\ instants' = NoInstants
    /\ UNCHANGED <<counterLock, handler, phase, loaded, bytesFile, wbytes,
                   aofTemp, rdbTemp, now,
                   aofFile, rdbFile, nops, jobs>>

\* ------------------------------------------------------------- storage.rs
\* Storage::set of storage.rs 175-184: the expiry, the Operation and
\* aof_writer.try_write(), which does not wait: when the lock is held the
\* record is not written
legacy_set_try_write(c, k, d) ==
    /\ pc[c] = "idle"
    /\ nops' = nops + 1
    /\ LET entry == ValueEntry(FreshValue, ExpiresAt(d, now))
       IN req' = [req EXCEPT ![c] =
                     [op |-> "set", key |-> k, entry |-> Some(entry),
                      at |-> now, logged |-> FALSE, base |-> None,
                      old |-> None]]
    /\ IF aofLock = FreeLock
       THEN /\ aofLock' = ClientLock(c)
            /\ pc' = [pc EXCEPT ![c] = "l_locked"]
       ELSE /\ pc' = [pc EXCEPT ![c] = "l_remove"]
            /\ UNCHANGED aofLock
    /\ ret' = NoRet
    /\ solo' = Touch(c, k)
    /\ compBase' = [compBase EXCEPT ![k] = None]
    /\ expectLog' = IF expectLog.state = "compacting" THEN NoExpect
                    ELSE expectLog
    /\ UNCHANGED <<counterLock, instants, handler, phase, loaded, bytesFile,
                   wbytes, aofTemp, rdbTemp, now,
                   data, writer, writerLive, sync_counter, aofFile, rdbFile,
                   syncVars, rdbVars, compVars, jobs, crashes, dataLogged,
                   lastRec, lastRet, tableAtSync>>

\* Storage::set of storage.rs 185-186: writeln!(writer, ..) and the release
\* of the guard
legacy_set_write(c) ==
    /\ pc[c] = "l_locked"
    /\ aofLock = ClientLock(c)
    /\ writer' = Append(writer, SetOp(req[c].key, req[c].entry[1]))
    /\ lastRec' = [lastRec EXCEPT ![req[c].key] = req[c].entry]
    /\ expectLog' = Appended(expectLog, SetOp(req[c].key, req[c].entry[1]))
    /\ req' = [req EXCEPT ![c].logged = TRUE]
    /\ aofLock' = FreeLock
    /\ pc' = [pc EXCEPT ![c] = "l_remove"]
    /\ ret' = NoRet
    /\ UNCHANGED <<counterLock, instants, handler, phase, loaded, bytesFile,
                   wbytes, aofTemp, rdbTemp, now,
                   data, writerLive, sync_counter, aofFile, rdbFile, syncVars,
                   rdbVars, compVars, budgetVars, dataLogged, lastRet,
                   tableAtSync, compBase, solo>>

\* Storage::set of storage.rs 188: self.data.remove(&key); `old` keeps the
\* entry it removed
legacy_set_remove(c) ==
    /\ pc[c] = "l_remove"
    /\ data' = [data EXCEPT ![req[c].key] = None]
    /\ req' = [req EXCEPT ![c].old = data[req[c].key]]
    /\ pc' = [pc EXCEPT ![c] = "l_insert"]
    /\ ret' = NoRet
    /\ instants' = Instant(data')
    /\ UNCHANGED <<counterLock, handler, phase, loaded, bytesFile, wbytes,
                   aofTemp, rdbTemp,
                   expectLog, now, logVars, rdbFile, syncVars, rdbVars,
                   compVars, budgetVars, histVars>>

\* Storage::set of storage.rs 189-190: self.data.insert(..); Ok(())
legacy_set_insert(c) ==
    /\ pc[c] = "l_insert"
    /\ LET k == req[c].key
           e == req[c].entry
       IN /\ data' = Insert(data, k, e[1])
          /\ dataLogged' = [dataLogged EXCEPT ![k] = req[c].logged]
          /\ ret' = [client |-> c, op |-> "set", key |-> k, seen |-> e,
                     at |-> req[c].at, base |-> None, result |-> None,
                     removed |-> None]
          /\ lastRet' = [lastRet EXCEPT ![k] = Known(e)]
          /\ solo' = [solo EXCEPT ![k].plain = Plain(@, e[1])]
    /\ pc' = [pc EXCEPT ![c] = "idle"]
    /\ req' = [req EXCEPT ![c] = NoReq]
    /\ instants' = Instant(data')
    /\ UNCHANGED <<counterLock, handler, phase, loaded, bytesFile, wbytes,
                   aofTemp, rdbTemp,
                   expectLog, now, logVars, rdbFile, syncVars, rdbVars,
                   compVars, budgetVars, lastRec, tableAtSync, compBase>>

\* the flush job of storage.rs 99-104: writer.write().await
legacy_flush_lock ==
    /\ syncPc = "idle"
    /\ jobs < MaxJobs
    /\ aofLock = FreeLock
    /\ aofLock' = SyncLock
    /\ syncPc' = "locked"
    /\ jobs' = jobs + 1
    /\ ret' = NoRet
    /\ UNCHANGED <<counterLock, instants, handler, phase, loaded, bytesFile,
                   wbytes, aofTemp, rdbTemp,
                   expectLog, now, data, clientVars, writer, writerLive,
                   sync_counter, aofFile, rdbFile, rdbVars, compVars, nops,
                   crashes, histVars>>

\* the flush job of storage.rs 105-108: guard.flush() and the release
legacy_flush ==
    /\ syncPc = "locked"
    /\ aofLock = SyncLock
    /\ aofFile' = Flushed(aofFile, writer, writerLive)
    /\ writer' = <<>>
    /\ tableAtSync' = data
    /\ aofLock' = FreeLock
    /\ syncPc' = "idle"
    /\ ret' = NoRet
    /\ UNCHANGED <<counterLock, instants, handler, phase, loaded, bytesFile,
                   wbytes, aofTemp, rdbTemp,
                   expectLog, now, data, clientVars, writerLive, sync_counter,
                   rdbFile, rdbVars, compVars, budgetVars, dataLogged,
                   lastRec, lastRet, compBase, solo>>

\* a sweep that also drops an entry at the instant of its expiry
retain_before(entry, t) ==
    entry.expires_at = None \/ t < entry.expires_at[1]

\* the closure of data.retain (storage.rs 210-216): keep an entry without
\* expiry, and one with `now <= expires_at`
retain(entry, t) == entry.expires_at = None \/ t <= entry.expires_at[1]

\* Storage::cleanup_expired_keys of storage.rs 208-217: data.retain keeps an
\* entry without expiry or with now <= expires_at
cleanup_expired_keys ==
    /\ data' = [k \in Keys |->
                   IF data[k] # None /\ ~retain(data[k][1], now)
                   THEN None ELSE data[k]]
    /\ data' # data
    /\ ret' = NoRet
    /\ instants' = Instant(data')
    /\ UNCHANGED <<counterLock, handler, phase, loaded, bytesFile, wbytes,
                   aofTemp, rdbTemp,
                   expectLog, now, clientVars, logVars, rdbFile, syncVars,
                   rdbVars, compVars, budgetVars, histVars>>

\* Storage::compact_aof of storage.rs 232-234, after its loop over
\* data.iter(): flush and rename over the log path.  aof_writer is not
\* reopened: it keeps the replaced file.
compact_aof ==
    /\ compPc = "iter"
    /\ compIdx = NumKeys
    /\ aofFile' = CompactRecords(compSnap)
    /\ writerLive' = FALSE
    /\ compPc' = "idle"
    /\ compIdx' = 0
    /\ compSnap' = <<>>
    /\ compBase' = [k \in Keys |-> None]
    /\ expectLog' = Compacted(expectLog, compSnap)
    /\ ret' = NoRet
    /\ instants' = [instants EXCEPT !.comp = {}]
    /\ UNCHANGED <<counterLock, handler, phase, loaded, bytesFile, wbytes,
                   now, data, clientVars,
                   writer, aofLock, sync_counter, rdbFile, syncVars, rdbVars,
                   budgetVars, dataLogged, lastRec, lastRet, tableAtSync,
                   solo, rdbTemp, aofTemp>>

\* ------------------------------------------------------------- Spec
\* persistence::storage::Storage with its jobs and a crash
Next ==
    \/ Tick
    \/ nops < MaxOps /\ \E c \in Clients, k \in Keys : get(c, k)
    \/ \E c \in Clients : get_remove(c)
    \/ nops < MaxOps /\ \E c \in Clients, k \in Keys, d \in Durations :
          append_operation(c, k, d)
    \/ \E c \in Clients : set_insert(c)
    \/ sync
    \/ rdb_snapshot_step
    \/ save
    \/ compact_snapshot_step
    \/ compact_rename
    \/ compact_reopen
    \/ crash_restart

Spec == Init /\ [][Next]_vars

\* persistence::storage::Storage under its clients alone
NextCalls ==
    \/ Tick
    \/ nops < MaxCalls /\ \E c \in Clients, k \in Keys : get(c, k)
    \/ \E c \in Clients : get_remove(c)
    \/ nops < MaxCalls /\ \E c \in Clients, k \in Keys, d \in Durations :
          append_operation(c, k, d)
    \/ \E c \in Clients : set_insert(c)

SpecCalls == Init /\ [][NextCalls]_vars

\* Storage of storage.rs with its jobs and a crash
NextLegacy ==
    \/ Tick
    \/ nops < MaxOps /\ \E c \in Clients, k \in Keys : get(c, k)
    \/ \E c \in Clients : get_remove(c)
    \/ nops < MaxOps /\ \E c \in Clients, k \in Keys, d \in Durations :
          legacy_set_try_write(c, k, d)
    \/ \E c \in Clients : legacy_set_write(c)
    \/ \E c \in Clients : legacy_set_remove(c)
    \/ \E c \in Clients : legacy_set_insert(c)
    \/ legacy_flush_lock /\ jobs' <= MaxLegacyJobs
    \/ legacy_flush
    \/ cleanup_expired_keys
    \/ rdb_snapshot_step /\ jobs' <= MaxLegacyJobs
    \/ save
    \/ compact_snapshot_step /\ jobs' <= MaxLegacyJobs
    \/ compact_aof
    \/ crash_restart

SpecLegacy == Init /\ [][NextLegacy]_vars

\* persistence::storage::Storage with the writes of its temporary files as
\* steps of their own
NextFiles ==
    \/ Tick
    \/ nops < MaxFileOps /\ \E c \in Clients, k \in Keys, d \in Durations :
          append_operation(c, k, d)
    \/ \E c \in Clients : set_insert(c)
    \/ sync
    \/ rdb_snapshot_step
    \/ save_create
    \/ save_write
    \/ save_rename
    \/ compact_snapshot_step
    \/ compact_create
    \/ compact_write
    \/ compact_rename_temp
    \/ compact_reopen
    \/ crash_restart

SpecFiles == Init /\ [][NextFiles]_vars

\* ------------------------------------------------------------- AofManager
\* AofManager alone, at the level of the bytes of its writer and its file.
\* AofManager::new and load_operations on the file a previous run left
InitFrames ==
    /\ now = 0
    /\ bytesFile \in LogImages
    /\ aofFile = WholeOps(Len(bytesFile))
    /\ loaded = NotLoaded
    /\ wbytes = <<>>
    /\ data = EmptyTable
    /\ pc = [c \in Clients |-> "idle"]
    /\ req = [c \in Clients |-> NoReq]
    /\ ret = NoRet
    /\ writer = <<>>
    /\ writerLive = TRUE
    /\ aofLock = FreeLock
    /\ sync_counter = 0
    /\ rdbFile = <<>>
    /\ syncPc = "idle"
    /\ rdbPc = "idle" /\ rdbIdx = 0 /\ rdbSnap = <<>>
    /\ compPc = "idle" /\ compIdx = 0 /\ compSnap = <<>>
    /\ nops = 0 /\ jobs = 0 /\ crashes = 0
    /\ dataLogged = [k \in Keys |-> TRUE]
    /\ lastRec = [k \in Keys |-> None]
    /\ lastRet = [k \in Keys |-> Unknown]
    /\ tableAtSync = data
    /\ compBase = [k \in Keys |-> None]
    /\ solo = [k \in Keys |-> NoSolo]
    /\ expectLog = NoExpect
    /\ rdbTemp = <<>>
    /\ aofTemp = <<>>
    /\ phase = "running"
    /\ handler = [c \in Clients |-> IdleHandler]
    /\ instants = NoInstants
    /\ counterLock = FreeLock

\* a lock that several writers hold at once
WriteLockShared(lock) == TRUE

\* self.writer.write().await returns when no other task holds the lock
WriteLockFree(lock) == lock = FreeLock

\* AofManager::load_operations, called once by load_persistent_data
load_operations ==
    /\ ~loaded.done
    /\ loaded' = ReadRecords(bytesFile, <<>>)
    /\ UNCHANGED <<counterLock, instants, handler, phase, now, data,
                   clientVars, ret, logVars, rdbFile,
                   syncVars, rdbVars, compVars, budgetVars, histVars,
                   expectLog, rdbTemp, aofTemp, wbytes, bytesFile>>

\* append_operation 38-42: the operation is serialized and the writer lock
\* taken.  The server serves only after a load that returned Ok.
append_lock(c, k, d) ==
    /\ loaded.done /\ loaded.ok
    /\ pc[c] = "idle"
    /\ WriteLockFree(aofLock)
    /\ aofLock' = ClientLock(c)
    /\ nops' = nops + 1
    /\ req' = [req EXCEPT ![c] =
                  [op |-> "append", key |-> k,
                   entry |-> Some(ValueEntry(FreshValue, ExpiresAt(d, now))),
                   at |-> now, logged |-> FALSE, base |-> None,
                   old |-> None]]
    /\ pc' = [pc EXCEPT ![c] = "f_len"]
    /\ UNCHANGED <<counterLock, instants, handler, phase, now, data, ret,
                   writer, writerLive, sync_counter,
                   aofFile, rdbFile, syncVars, rdbVars, compVars, jobs,
                   crashes, histVars, expectLog, rdbTemp, aofTemp, wbytes,
                   bytesFile, loaded>>

\* the operation of client c's append
AppendOp(c) == SetOp(req[c].key, req[c].entry[1])

\* append_operation 43: writer.write_all(&len)
append_write_len(c) ==
    /\ pc[c] = "f_len"
    /\ wbytes' = wbytes \o to_le_bytes(Len(serialize(AppendOp(c))))
    /\ pc' = [pc EXCEPT ![c] = "f_payload"]
    /\ UNCHANGED <<counterLock, instants, handler, phase, now, data, req, ret,
                   logVars, rdbFile, syncVars,
                   rdbVars, compVars, budgetVars, histVars, expectLog,
                   rdbTemp, aofTemp, bytesFile, loaded>>

\* append_operation 44-56: writer.write_all(&serialized), the counter, the
\* eager flush, and the lock released
append_write_payload(c) ==
    /\ pc[c] = "f_payload"
    /\ LET bytes == wbytes \o serialize(AppendOp(c))
           buf == Append(writer, AppendOp(c))
       IN IF EagerSync(sync_counter + 1)
          THEN /\ bytesFile' = Flushed(bytesFile, bytes, writerLive)
               /\ aofFile' = Flushed(aofFile, buf, writerLive)
               /\ wbytes' = <<>>
               /\ writer' = <<>>
               /\ sync_counter' = 0
          ELSE /\ wbytes' = bytes
               /\ writer' = buf
               /\ sync_counter' = sync_counter + 1
               /\ UNCHANGED <<bytesFile, aofFile>>
    /\ aofLock' = FreeLock
    /\ pc' = [pc EXCEPT ![c] = "idle"]
    /\ req' = [req EXCEPT ![c] = NoReq]
    /\ UNCHANGED <<counterLock, instants, handler, phase, now, data, ret,
                   writerLive, rdbFile, syncVars,
                   rdbVars, compVars, budgetVars, histVars, expectLog,
                   rdbTemp, aofTemp, loaded>>

\* AofManager::sync at the level of bytes
sync_bytes ==
    /\ loaded.done /\ loaded.ok
    /\ jobs < MaxJobs
    /\ WriteLockFree(aofLock)
    /\ jobs' = jobs + 1
    /\ bytesFile' = Flushed(bytesFile, wbytes, writerLive)
    /\ aofFile' = Flushed(aofFile, writer, writerLive)
    /\ wbytes' = <<>>
    /\ writer' = <<>>
    /\ UNCHANGED <<counterLock, instants, handler, phase, now, data,
                   clientVars, ret, writerLive, aofLock,
                   sync_counter, rdbFile, syncVars, rdbVars, compVars, nops,
                   crashes, histVars, expectLog, rdbTemp, aofTemp, loaded>>

\* the entries a caller hands to AofManager::compact
CompactInputs == {<<>>, <<[key |-> 1, entry |-> ValueEntry(1, None)]>>}

\* AofManager::compact 67-99 at the level of bytes: the records of the
\* entries replace the file at the log path
compact_bytes_rename(entries) ==
    /\ loaded.done /\ loaded.ok
    /\ jobs < MaxJobs
    /\ compPc = "idle"
    /\ jobs' = jobs + 1
    /\ bytesFile' = Frames(CompactRecords(entries))
    /\ aofFile' = CompactRecords(entries)
    /\ writerLive' = FALSE
    /\ compPc' = "renamed"
    /\ UNCHANGED <<counterLock, instants, handler, phase, now, data,
                   clientVars, ret, writer, aofLock,
                   sync_counter, rdbFile, syncVars, rdbVars, compIdx,
                   compSnap, nops, crashes, histVars, expectLog, rdbTemp,
                   aofTemp, wbytes, loaded>>

\* AofManager::compact 101-102: under the writer lock a writer on the new
\* file replaces the old one, whose drop flushes it to the replaced file
compact_bytes_swap ==
    /\ compPc = "renamed"
    /\ WriteLockFree(aofLock)
    /\ wbytes' = <<>>
    /\ writer' = <<>>
    /\ writerLive' = TRUE
    /\ compPc' = "idle"
    /\ UNCHANGED <<counterLock, instants, handler, phase, now, data,
                   clientVars, ret, aofLock, sync_counter,
                   aofFile, rdbFile, syncVars, rdbVars, compIdx, compSnap,
                   budgetVars, histVars, expectLog, rdbTemp, aofTemp,
                   bytesFile, loaded>>

NextFrames ==
    \/ load_operations
    \/ nops < MaxOps /\ \E c \in Clients, k \in Keys, d \in Durations :
          append_lock(c, k, d)
    \/ \E c \in Clients : append_write_len(c)
    \/ \E c \in Clients : append_write_payload(c)
    \/ sync_bytes
    \/ \E entries \in CompactInputs : compact_bytes_rename(entries)
    \/ compact_bytes_swap

SpecFrames == InitFrames /\ [][NextFrames]_vars

\* ------------------------------------------------------------- new_with_paths
\* The files a previous run may have left: no snapshot, or one with an entry
\* for each key; no log, the log of PriorLogs, or a log that ends in a Delete.
PriorSnapshots ==
    {<<>>,
     <<[key |-> 1, entry |-> ValueEntry(0, None)],
       [key |-> 2, entry |-> ValueEntry(0, Some(0))]>>}
PriorLogsAll ==
    PriorLogs \cup {<<SetOp(2, ValueEntry(3, Some(1))), DeleteOp(1)>>}

\* Bytes that do not deserialize: in a snapshot file, which bincode and
\* serde_json read as one value, and as one whole record of a log file
CorruptEntry == [key |-> 0, entry |-> ValueEntry(0, None)]
CorruptOp == [op |-> "Corrupt", key |-> 0]
CorruptSnapshots == {<<CorruptEntry>>}
CorruptLogs ==
    {<<SetOp(1, ValueEntry(1, None)), CorruptOp,
       SetOp(2, ValueEntry(3, None))>>}

\* deserialize_from (rdb.rs 34), serde_json::from_reader (storage.rs 134)
SnapshotDeserializes(rdb) == \A i \in 1..Len(rdb) : rdb[i] # CorruptEntry

\* deserialize (aof.rs 120), serde_json::from_str (storage.rs 152)
OpDeserializes(o) == o.op # "Corrupt"

\* Storage::new_with_paths 27-44: the managers are made, the Table is empty
InitStartup ==
    /\ now = 0
    /\ rdbFile \in PriorSnapshots \cup CorruptSnapshots
    /\ aofFile \in PriorLogsAll \cup CorruptLogs
    /\ data = EmptyTable
    /\ phase = "new"
    /\ pc = [c \in Clients |-> "idle"]
    /\ req = [c \in Clients |-> NoReq]
    /\ ret = NoRet
    /\ writer = <<>>
    /\ writerLive = TRUE
    /\ aofLock = FreeLock
    /\ sync_counter = 0
    /\ syncPc = "idle"
    /\ rdbPc = "idle" /\ rdbIdx = 0 /\ rdbSnap = <<>>
    /\ compPc = "idle" /\ compIdx = 0 /\ compSnap = <<>>
    /\ nops = 0 /\ jobs = 0 /\ crashes = 0
    /\ dataLogged = [k \in Keys |-> TRUE]
    /\ lastRec = [k \in Keys |-> None]
    /\ lastRet = [k \in Keys |-> Unknown]
    /\ tableAtSync = data
    /\ compBase = [k \in Keys |-> None]
    /\ solo = [k \in Keys |-> NoSolo]
    /\ expectLog = NoExpect
    /\ rdbTemp = <<>>
    /\ aofTemp = <<>>
    /\ wbytes = <<>>
    /\ bytesFile = <<>>
    /\ loaded = NotLoaded
    /\ handler = [c \in Clients |-> IdleHandler]
    /\ instants = NoInstants
    /\ counterLock = FreeLock

\* load_persistent_data 52-59: the loop over rdb_manager.load()
load_snapshot ==
    /\ phase = "new"
    /\ IF SnapshotDeserializes(rdbFile)
       THEN /\ data' = LoadSnapshot(data, rdbFile, now)
            /\ phase' = "snapshot_loaded"
       ELSE \* rdb_manager.load()? returns the error: new_with_paths fails
            /\ phase' = "failed"
            /\ data' = data
    /\ UNCHANGED <<counterLock, instants, handler, now, clientVars, ret,
                   logVars, rdbFile, syncVars, rdbVars,
                   compVars, budgetVars, histVars, expectLog, rdbTemp,
                   aofTemp, wbytes, bytesFile, loaded>>

\* load_persistent_data 61-76: the loop over aof_manager.load_operations()
replay_log ==
    /\ phase = "snapshot_loaded"
    /\ IF \A i \in 1..Len(aofFile) : OpDeserializes(aofFile[i])
       THEN /\ data' = ReplayOps(data, aofFile, now)
            /\ phase' = "loaded"
       ELSE \* load_operations()? returns the error of aof.rs 122 before
            \* any operation is applied: new_with_paths fails
            /\ phase' = "failed"
            /\ data' = data
    /\ UNCHANGED <<counterLock, instants, handler, now, clientVars, ret,
                   logVars, rdbFile, syncVars, rdbVars,
                   compVars, budgetVars, histVars, expectLog, rdbTemp,
                   aofTemp, wbytes, bytesFile, loaded>>

\* new_with_paths 46: the jobs are spawned once load_persistent_data has
\* returned
CanStartJobs(p) == p = "loaded"

start_background_tasks ==
    /\ CanStartJobs(phase)
    /\ phase' = "running"
    /\ tableAtSync' = data
    /\ lastRet' = [k \in Keys |-> Known(data[k])]
    /\ UNCHANGED <<counterLock, instants, handler, now, data, clientVars, ret,
                   logVars, rdbFile, syncVars,
                   rdbVars, compVars, budgetVars, dataLogged, lastRec,
                   compBase, solo, expectLog, rdbTemp, aofTemp, wbytes,
                   bytesFile, loaded>>

\* a job or a client runs: the constructor has returned the Storage
Serving == phase = "running"

\* The startup of persistence::storage::Storage in its steps, and the jobs
\* and sets after it.  The clock stands still while the two loops run.
NextStartup ==
    \/ phase \in {"new", "running"} /\ Tick
    \/ load_snapshot
    \/ replay_log
    \/ start_background_tasks
    \/ Serving /\ nops < MaxFileOps
          /\ \E c \in Clients, k \in Keys, d \in Durations :
                append_operation(c, k, d)
    \/ Serving /\ \E c \in Clients : set_insert(c)
    \/ Serving /\ sync
    \/ Serving /\ rdb_snapshot_step
    \/ Serving /\ save
    \/ Serving /\ compact_snapshot_step
    \/ Serving /\ compact_rename
    \/ Serving /\ compact_reopen

SpecStartup == InitStartup /\ [][NextStartup]_vars

\* ------------------------------------------------------------- Storage::new
\* Storage::new of storage.rs in its steps.  load_persistent_data 131-144:
\* serde_json::from_reader(reader).unwrap() panics on a snapshot that does
\* not deserialize
legacy_load_snapshot ==
    /\ phase = "new"
    /\ IF SnapshotDeserializes(rdbFile)
       THEN /\ data' = LoadSnapshot(data, rdbFile, now)
            /\ phase' = "snapshot_loaded"
       ELSE /\ phase' = "failed"
            /\ data' = data
    /\ UNCHANGED <<counterLock, instants, handler, now, clientVars, ret,
                   logVars, rdbFile, syncVars, rdbVars,
                   compVars, budgetVars, histVars, expectLog, rdbTemp,
                   aofTemp, wbytes, bytesFile, loaded>>

\* load_persistent_data 146-169: `if let Ok(op) = serde_json::from_str(..)`
\* applies the lines that deserialize and passes over the others
legacy_replay_log ==
    /\ phase = "snapshot_loaded"
    /\ data' = ReplayOps(data, SelectSeq(aofFile, OpDeserializes), now)
    /\ phase' = "loaded"
    /\ UNCHANGED <<counterLock, instants, handler, now, clientVars, ret,
                   logVars, rdbFile, syncVars, rdbVars,
                   compVars, budgetVars, histVars, expectLog, rdbTemp,
                   aofTemp, wbytes, bytesFile, loaded>>

\* Storage::new of storage.rs and the sets and jobs after it
NextLegacyStartup ==
    \/ phase \in {"new", "running"} /\ Tick
    \/ legacy_load_snapshot
    \/ legacy_replay_log
    \/ start_background_tasks
    \/ Serving /\ nops < MaxFileOps
          /\ \E c \in Clients, k \in Keys, d \in Durations :
                legacy_set_try_write(c, k, d)
    \/ Serving /\ \E c \in Clients : legacy_set_write(c)
    \/ Serving /\ \E c \in Clients : legacy_set_remove(c)
    \/ Serving /\ \E c \in Clients : legacy_set_insert(c)
    \/ Serving /\ legacy_flush_lock /\ jobs' <= MaxLegacyJobs
    \/ Serving /\ legacy_flush
    \/ Serving /\ cleanup_expired_keys

SpecLegacyStartup == InitStartup /\ [][NextLegacyStartup]_vars

\* ------------------------------------------------------------- the jobs' loops
\* interval.tick().await in the loops of start_background_tasks: the
\* intervals fire again, and the jobs run once more
interval_tick ==
    /\ jobs > 0
    /\ jobs' = 0
    /\ UNCHANGED <<counterLock, instants, handler, now, data, clientVars, ret,
                   logVars, rdbFile, syncVars,
                   rdbVars, compVars, nops, crashes, histVars, expectLog,
                   rdbTemp, aofTemp, wbytes, bytesFile, loaded, phase>>

\* persistence::storage::Storage with the three jobs it spawns, run for
\* ever, and no client
NextSweep ==
    \/ Tick
    \/ interval_tick
    \/ sync
    \/ rdb_snapshot_step
    \/ save
    \/ compact_snapshot_step
    \/ compact_rename
    \/ compact_reopen

\* tokio runs every spawned task: no step of a job waits for ever
FairJobs ==
    /\ WF_vars(interval_tick)
    /\ SF_vars(sync)
    /\ SF_vars(rdb_snapshot_step)
    /\ WF_vars(save)
    /\ SF_vars(compact_snapshot_step)
    /\ WF_vars(compact_rename)
    /\ WF_vars(compact_reopen)

SpecSweep == Init /\ [][NextSweep]_vars /\ FairJobs

\* Storage of storage.rs with the four jobs it spawns, run for ever, and no
\* client
NextLegacySweep ==
    \/ Tick
    \/ interval_tick
    \/ cleanup_expired_keys
    \/ legacy_flush_lock
    \/ legacy_flush
    \/ rdb_snapshot_step
    \/ save
    \/ compact_snapshot_step
    \/ compact_aof

FairLegacyJobs ==
    /\ WF_vars(interval_tick)
    /\ WF_vars(cleanup_expired_keys)
    /\ SF_vars(legacy_flush_lock)
    /\ WF_vars(legacy_flush)
    /\ SF_vars(rdb_snapshot_step)
    /\ WF_vars(save)
    /\ SF_vars(compact_snapshot_step)
    /\ WF_vars(compact_aof)

SpecLegacySweep == Init /\ [][NextLegacySweep]_vars /\ FairLegacyJobs

\* ------------------------------------------------------------- I/O errors
\* AofManager::sync returns an error (flush 61 or sync_all 62): the guard of
\* the lock is dropped, the job logs the error (persistence/storage.rs
\* 104-106) and waits for its next tick
sync_fails ==
    /\ jobs < MaxJobs
    /\ aofLock = FreeLock
    /\ jobs' = jobs + 1
    /\ ret' = NoRet
    /\ UNCHANGED <<counterLock, instants, handler, now, data, clientVars,
                   logVars, rdbFile, syncVars, rdbVars,
                   compVars, nops, crashes, histVars, expectLog, rdbTemp,
                   aofTemp, wbytes, bytesFile, loaded, phase>>

\* RdbManager::save returns an error (File::create 21, serialize_into 24 or
\* rename 26): the snapshot path keeps its file, the job logs the error
\* (persistence/storage.rs 91-93)
save_fails ==
    /\ rdbPc = "iter"
    /\ rdbIdx = NumKeys
    /\ rdbPc' = "idle"
    /\ rdbIdx' = 0
    /\ rdbSnap' = <<>>
    /\ ret' = NoRet
    /\ instants' = [instants EXCEPT !.rdb = {}]
    /\ UNCHANGED <<counterLock, handler, now, data, clientVars, logVars,
                   rdbFile, syncVars,
                   compVars, budgetVars, histVars, expectLog, rdbTemp,
                   aofTemp, wbytes, bytesFile, loaded, phase>>

\* AofManager::compact returns an error before its rename (open 73, write
\* 85-86, flush 89, sync_all 90, rename 92): the log path keeps its file
compact_fails ==
    /\ compPc = "iter"
    /\ compIdx = NumKeys
    /\ compPc' = "idle"
    /\ compIdx' = 0
    /\ compSnap' = <<>>
    /\ compBase' = [k \in Keys |-> None]
    /\ expectLog' = NoExpect
    /\ ret' = NoRet
    /\ instants' = [instants EXCEPT !.comp = {}]
    /\ UNCHANGED <<counterLock, handler, now, data, clientVars, logVars,
                   rdbFile, syncVars, rdbVars,
                   budgetVars, dataLogged, lastRec, lastRet, tableAtSync,
                   solo, rdbTemp, aofTemp, wbytes, bytesFile, loaded, phase>>

\* AofManager::compact returns the error of the open at 94-99, after the
\* rename at 92: lines 101-102 do not run, self.writer keeps the BufWriter
\* on the replaced file
compact_open_fails ==
    /\ compPc = "renamed"
    /\ compPc' = "idle"
    /\ compIdx' = 0
    /\ compSnap' = <<>>
    /\ compBase' = [k \in Keys |-> None]
    /\ expectLog' = NoExpect
    /\ ret' = NoRet
    /\ UNCHANGED <<counterLock, instants, handler, now, data, clientVars,
                   logVars, rdbFile, syncVars, rdbVars,
                   budgetVars, dataLogged, lastRec, lastRet, tableAtSync,
                   solo, rdbTemp, aofTemp, wbytes, bytesFile, loaded, phase>>

\* persistence::storage::Storage with jobs whose I/O may fail
NextFaults ==
    \/ Tick
    \/ nops < MaxFileOps /\ \E c \in Clients, k \in Keys, d \in Durations :
          append_operation(c, k, d)
    \/ \E c \in Clients : set_insert(c)
    \/ sync
    \/ sync_fails
    \/ rdb_snapshot_step
    \/ save
    \/ save_fails
    \/ compact_snapshot_step
    \/ compact_rename
    \/ compact_fails
    \/ compact_reopen
    \/ compact_open_fails
    \/ interval_tick

SpecFaults == Init /\ [][NextFaults]_vars

\* ------------------------------------------------------------- handle_client
\* One step of main.rs handle_client and of what it calls for each position
\* of a connection: idle, read, decoded, command, reply, written, closed.
\* A connection c makes its storage calls as client c.
ConnVars ==
    <<now, data, clientVars, logVars, rdbFile, syncVars, rdbVars, compVars,
      budgetVars, histVars, expectLog, rdbTemp, aofTemp, wbytes, bytesFile,
      loaded, phase, instants, counterLock>>

At(c, position, r, v) ==
    [handler EXCEPT ![c] = [at |-> position, request |-> r, value |-> v]]

\* a loop that leaves after an error reply
AfterReplyStopOnError(response) ==
    IF response.kind = "Error" THEN "closed" ELSE "written"

\* what the loop does after a reply is written: it goes on, for any reply
AfterReply(response) == "written"

\* stream.read(&mut buffer) returns Ok(n) with n > 0
stream_read(c, r) ==
    /\ handler[c].at \in {"idle", "written"}
    /\ r.bytes # <<>>
    /\ handler' = At(c, "read", r, NoResp)
    /\ ret' = NoRet
    /\ UNCHANGED ConnVars

\* stream.read returns Ok(0): break
read_eof(c) ==
    /\ handler[c].at \in {"idle", "written"}
    /\ handler' = At(c, "closed", EmptyBuffer, [kind |-> "Eof"])
    /\ ret' = NoRet
    /\ UNCHANGED ConnVars

\* stream.read returns Err(e): break
read_fails(c) ==
    /\ handler[c].at \in {"idle", "written"}
    /\ handler' = At(c, "closed", EmptyBuffer, [kind |-> "ReadError"])
    /\ ret' = NoRet
    /\ UNCHANGED ConnVars

\* Resp::parse(&buffer[..n])
decode(c) ==
    /\ handler[c].at = "read"
    /\ handler' = At(c, "decoded", handler[c].request,
                     parse(handler[c].request.bytes))
    /\ ret' = NoRet
    /\ UNCHANGED ConnVars

\* Ok(Some(resp)) => Command::from_resp(resp)
command_from_resp(c) ==
    /\ handler[c].at = "decoded"
    /\ handler[c].value.kind = "Array"
    /\ handler' = At(c, "command", handler[c].request,
                     from_resp(handler[c].value.items))
    /\ ret' = NoRet
    /\ UNCHANGED ConnVars

\* Error's Display (main.rs 17-27)
to_string(e) ==
    <<IF e.kind = "ProtocolError" THEN "Protocol error: "
      ELSE "Command error: ">> \o e.text

\* Err(e) => Resp::Error(e.to_string()) for both errors, and
\* Ok(None) => Resp::Error("Empty request")
error_response(c) ==
    /\ \/ handler[c].at = "decoded" /\ handler[c].value.kind = "ProtocolError"
       \/ handler[c].at = "decoded" /\ handler[c].value.kind = "None"
       \/ handler[c].at = "command" /\ handler[c].value.kind = "CommandError"
    /\ handler' = At(c, "reply", handler[c].request,
                     IF handler[c].value.kind = "None"
                     THEN ErrorReply("Empty request")
                     ELSE [kind |-> "Error",
                           text |-> to_string(handler[c].value)])
    /\ ret' = NoRet
    /\ UNCHANGED ConnVars

\* Command::execute for Ping and Echo
execute_plain(c) ==
    /\ handler[c].at = "command"
    /\ handler[c].value.kind \in {"Ping", "Echo"}
    /\ handler' = At(c, "reply", handler[c].request,
                     IF handler[c].value.kind = "Ping"
                     THEN SimpleString(<<"P", "O", "N", "G">>)
                     ELSE SimpleString(handler[c].value.message))
    /\ ret' = NoRet
    /\ UNCHANGED ConnVars

\* the command of connection c is a Set of the next value on a key
IsSetCommand(c) ==
    /\ handler[c].at = "command"
    /\ handler[c].value.kind = "Set"
    /\ handler[c].value.value = Numeral(FreshValue)
    /\ \E k \in Keys : KeyName(k) = handler[c].value.key

IsGetCommand(c) ==
    /\ handler[c].at = "command"
    /\ handler[c].value.kind = "Get"
    /\ \E k \in Keys : KeyName(k) = handler[c].value.key

\* Command::execute for Set: storage.set(key, value, expiry), the log first
execute_set(c) ==
    /\ IsSetCommand(c)
    /\ append_operation(c, KeyOf(handler[c].value.key),
                        handler[c].value.expiry)

\* Command::execute for Get
execute_get(c) ==
    /\ IsGetCommand(c)
    /\ get(c, KeyOf(handler[c].value.key))

\* AofManager::append_operation returns Err: write_all fails and the
\* record is not in the writer, or the eager flush fails with the record
\* in the writer, or sync_all fails with the record in the file.  Storage::set
\* returns at its `?` (persistence/storage.rs 139), before the insert.
append_fails(c) ==
    /\ IsSetCommand(c)
    /\ pc[c] = "idle"
    /\ aofLock = FreeLock
    /\ nops' = nops + 1
    /\ LET k == KeyOf(handler[c].value.key)
           entry == ValueEntry(FreshValue,
                               ExpiresAt(handler[c].value.expiry, now))
           buf == Append(writer, SetOp(k, entry))
       IN /\ \/ UNCHANGED <<writer, sync_counter, aofFile, lastRec,
                            expectLog>>
             \/ /\ EagerSync(sync_counter + 1)
                /\ writer' = buf
                /\ sync_counter' = sync_counter + 1
                /\ lastRec' = [lastRec EXCEPT ![k] = Some(entry)]
                /\ expectLog' = Appended(expectLog, SetOp(k, entry))
                /\ UNCHANGED aofFile
             \/ /\ EagerSync(sync_counter + 1)
                /\ aofFile' = Flushed(aofFile, buf, writerLive)
                /\ writer' = <<>>
                /\ sync_counter' = sync_counter + 1
                /\ lastRec' = [lastRec EXCEPT ![k] = Some(entry)]
                /\ expectLog' = Appended(expectLog, SetOp(k, entry))
          /\ ret' = [client |-> c, op |-> "set_err", key |-> k,
                     seen |-> Some(entry), at |-> now, base |-> None,
                     result |-> None, removed |-> None]
    /\ UNCHANGED <<counterLock, instants, handler, phase, loaded, bytesFile,
                   wbytes, aofTemp,
                   rdbTemp, now, data, clientVars, writerLive, aofLock,
                   rdbFile, syncVars, rdbVars, compVars, jobs, crashes,
                   dataLogged, lastRet, tableAtSync, compBase, solo>>

\* an execute that answers OK whatever storage.set returned
execute_reply_unchecked(r) ==
    IF r.op \in {"set", "set_err"} THEN SimpleString(<<"O", "K">>)
    ELSE IF r.result = None THEN Null
    ELSE BulkString(Numeral(r.result[1]))

\* Command::execute 107-117: the Resp made of what the storage call returned
execute_reply(r) ==
    IF r.op = "set" THEN SimpleString(<<"O", "K">>)
    ELSE IF r.op = "set_err" THEN ErrorReply("ERR failed to set value")
    ELSE IF r.result = None THEN Null
    ELSE BulkString(Numeral(r.result[1]))

\* the storage call of connection c has returned: execute's response
execute_return(c) ==
    /\ ret.client = c
    /\ ret.op \in {"set", "set_err", "get"}
    /\ handler[c].at = "command"
    /\ handler' = At(c, "reply", handler[c].request, execute_reply(ret))
    /\ ret' = NoRet
    /\ UNCHANGED ConnVars

\* stream.write_all(&response.into_bytes()) returns Ok: the loop's next
\* turn, with the reply as the last one sent
write_all(c) ==
    /\ handler[c].at = "reply"
    /\ handler' = At(c, AfterReply(handler[c].value), EmptyBuffer,
                     handler[c].value)
    /\ ret' = NoRet
    /\ UNCHANGED ConnVars

\* stream.write_all returns Err(e): break
write_fails(c) ==
    /\ handler[c].at = "reply"
    /\ handler' = At(c, "closed", EmptyBuffer, [kind |-> "WriteError"])
    /\ ret' = NoRet
    /\ UNCHANGED ConnVars

\* the buffers Resp::parse is called on, v the value of a SET
Requests(v) == GoodRequests(v) \cup BadCommands \cup BadFrames

\* the requests of a client when the next value of a set is v: those of
\* the grammar, and some that are answered with an error
ConnRequests(v) ==
    CoreRequests(v)
    \cup {r \in BadCommands : r.shape \in {"empty", "unknown", "get_args"}}
    \cup {r \in BadFrames : r.framing \in {"first_byte", "fewer_elements"}}

\* no storage call has just returned
NoReturn == ret.op = "none"

\* handle_client on the served engine: a storage call that has returned is
\* answered before anything else happens
NextConn ==
    \/ \E c \in Conns : execute_return(c)
    \/ NoReturn /\ Tick
    \/ NoReturn /\ \E c \in Conns : \E r \in ConnRequests(FreshValue) :
          stream_read(c, r)
    \/ NoReturn /\ \E c \in Conns : read_eof(c)
    \/ NoReturn /\ \E c \in Conns : read_fails(c)
    \/ NoReturn /\ \E c \in Conns : decode(c)
    \/ NoReturn /\ \E c \in Conns : command_from_resp(c)
    \/ NoReturn /\ \E c \in Conns : error_response(c)
    \/ NoReturn /\ \E c \in Conns : execute_plain(c)
    \/ NoReturn /\ nops < MaxConnOps /\ \E c \in Conns : execute_set(c)
    \/ NoReturn /\ \E c \in Conns : set_insert(c)
    \/ NoReturn /\ nops < MaxConnOps /\ \E c \in Conns : append_fails(c)
    \/ NoReturn /\ nops < MaxConnOps /\ \E c \in Conns : execute_get(c)
    \/ NoReturn /\ \E c \in Conns : get_remove(c)
    \/ NoReturn /\ \E c \in Conns : write_all(c)
    \/ NoReturn /\ \E c \in Conns : write_fails(c)

SpecConn == Init /\ [][NextConn]_vars

\* Resp::parse and Command::from_resp called on a buffer, as their callers
\* and tests may: any buffer of the requests, and the empty one
take_buffer(c, r) ==
    /\ handler[c].at \in {"idle", "decoded", "command"}
    /\ handler' = At(c, "read", r, NoResp)
    /\ ret' = NoRet
    /\ UNCHANGED ConnVars

CodecValues == {4, 5}

NextCodec ==
    \/ \E c \in Conns : \E v \in CodecValues :
          \E r \in Requests(v) \cup {EmptyBuffer} : take_buffer(c, r)
    \/ \E c \in Conns : decode(c)
    \/ \E c \in Conns : command_from_resp(c)

SpecCodec == Init /\ [][NextCodec]_vars

\* ------------------------------------------------------------- log locks
\* AofManager's calls with each lock acquisition as a step of its own: a
\* task that awaits a lock waits until it is free.
CompactLock == <<"compact", 0>>

\* an append of which one caller takes the two locks in the other order
LockOrderMixed(c) ==
    IF c = 1 THEN <<"counter", "writer">> ELSE <<"writer", "counter">>

\* append_operation: self.writer.write().await (aof.rs 42), and with that
\* lock held self.sync_counter.lock().await (aof.rs 46)
LockOrder(c) == <<"writer", "counter">>

\* the lock a call of append_operation awaits
Awaited(c) ==
    IF pc[c] = "a_first" THEN LockOrder(c)[1]
    ELSE IF pc[c] = "a_second" THEN LockOrder(c)[2]
    ELSE "none"

AfterLock(c) == IF pc[c] = "a_first" THEN "a_second" ELSE "a_locked"

\* a caller of append_operation up to its first await, the Operation made
locks_append_call(c, k, d) ==
    /\ pc[c] = "idle"
    /\ nops' = nops + 1
    /\ req' = [req EXCEPT ![c] =
                  [op |-> "set", key |-> k,
                   entry |-> Some(ValueEntry(FreshValue, ExpiresAt(d, now))),
                   at |-> now, logged |-> TRUE, base |-> None, old |-> None]]
    /\ pc' = [pc EXCEPT ![c] = "a_first"]
    /\ ret' = NoRet
    /\ UNCHANGED <<counterLock, instants, handler, phase, loaded, bytesFile,
                   wbytes, aofTemp, rdbTemp, expectLog, now, data, logVars,
                   rdbFile, syncVars, rdbVars, compVars, jobs, crashes,
                   histVars>>

\* the writer lock is acquired
locks_append_writer(c) ==
    /\ Awaited(c) = "writer"
    /\ aofLock = FreeLock
    /\ aofLock' = ClientLock(c)
    /\ pc' = [pc EXCEPT ![c] = AfterLock(c)]
    /\ ret' = NoRet
    /\ UNCHANGED <<counterLock, instants, handler, phase, loaded, bytesFile,
                   wbytes, aofTemp, rdbTemp, expectLog, now, data, req, writer,
                   writerLive, sync_counter, aofFile, rdbFile, syncVars,
                   rdbVars, compVars, budgetVars, histVars>>

\* the counter lock is acquired
locks_append_counter(c) ==
    /\ Awaited(c) = "counter"
    /\ counterLock = FreeLock
    /\ counterLock' = ClientLock(c)
    /\ pc' = [pc EXCEPT ![c] = AfterLock(c)]
    /\ ret' = NoRet
    /\ UNCHANGED <<instants, handler, phase, loaded, bytesFile, wbytes,
                   aofTemp, rdbTemp, expectLog, now, data, req, logVars,
                   rdbFile, syncVars, rdbVars, compVars, budgetVars, histVars>>

\* with both locks: the record, the counter, the eager flush and fsync, and
\* the end of the block, which drops both guards (aof.rs 43-54); the call
\* returns Ok
locks_append_release(c) ==
    /\ pc[c] = "a_locked"
    /\ LET buf == Append(writer, SetOp(req[c].key, req[c].entry[1]))
       IN IF EagerSync(sync_counter + 1)
          THEN /\ aofFile' = Flushed(aofFile, buf, writerLive)
               /\ writer' = <<>>
               /\ sync_counter' = 0
          ELSE /\ writer' = buf
               /\ sync_counter' = sync_counter + 1
               /\ UNCHANGED aofFile
    /\ counterLock' = FreeLock
    /\ aofLock' = FreeLock
    /\ pc' = [pc EXCEPT ![c] = "idle"]
    /\ req' = [req EXCEPT ![c] = NoReq]
    /\ ret' = NoRet
    /\ UNCHANGED <<instants, handler, phase, loaded, bytesFile, wbytes,
                   aofTemp, rdbTemp, expectLog, now, data, writerLive,
                   rdbFile, syncVars, rdbVars, compVars, budgetVars,
                   histVars>>

\* the sync job's interval.tick().await returns and it calls sync
locks_sync_call ==
    /\ syncPc = "idle"
    /\ syncPc' = "await"
    /\ ret' = NoRet
    /\ UNCHANGED <<counterLock, instants, handler, phase, loaded, bytesFile,
                   wbytes, aofTemp, rdbTemp, expectLog, now, data, clientVars,
                   logVars, rdbFile, rdbVars, compVars, budgetVars, histVars>>

\* AofManager::sync: self.writer.write().await (aof.rs 60)
locks_sync_writer ==
    /\ syncPc = "await"
    /\ aofLock = FreeLock
    /\ aofLock' = SyncLock
    /\ syncPc' = "locked"
    /\ ret' = NoRet
    /\ UNCHANGED <<counterLock, instants, handler, phase, loaded, bytesFile,
                   wbytes, aofTemp, rdbTemp, expectLog, now, data, clientVars,
                   writer, writerLive, sync_counter, aofFile, rdbFile,
                   rdbVars, compVars, budgetVars, histVars>>

\* AofManager::sync 61-63: flush, sync_all, and the guard dropped at return
locks_sync_release ==
    /\ syncPc = "locked"
    /\ aofFile' = Flushed(aofFile, writer, writerLive)
    /\ writer' = <<>>
    /\ aofLock' = FreeLock
    /\ syncPc' = "idle"
    /\ ret' = NoRet
    /\ UNCHANGED <<counterLock, instants, handler, phase, loaded, bytesFile,
                   wbytes, aofTemp, rdbTemp, expectLog, now, data, clientVars,
                   writerLive, sync_counter, rdbFile, rdbVars, compVars,
                   budgetVars, histVars>>

\* data.iter()...collect() on a Table that no step changes
RECURSIVE Collect(_, _)
Collect(k, snap) ==
    IF k > NumKeys THEN snap ELSE Collect(k + 1, IterStep(snap, k))

\* AofManager::compact 67-93, called by the compaction job with its copy of
\* the Table: the temporary file, renamed over the log path
locks_compact_call ==
    /\ compPc = "idle"
    /\ compSnap' = Collect(1, <<>>)
    /\ aofFile' = CompactRecords(compSnap')
    /\ writerLive' = FALSE
    /\ compPc' = "renamed"
    /\ ret' = NoRet
    /\ UNCHANGED <<counterLock, instants, handler, phase, loaded, bytesFile,
                   wbytes, aofTemp, rdbTemp, expectLog, now, data, clientVars,
                   writer, aofLock, sync_counter, rdbFile, syncVars, rdbVars,
                   compIdx, budgetVars, histVars>>

\* AofManager::compact 101: self.writer.write().await, after the rename
locks_compact_writer ==
    /\ compPc = "renamed"
    /\ aofLock = FreeLock
    /\ aofLock' = CompactLock
    /\ compPc' = "locked"
    /\ ret' = NoRet
    /\ UNCHANGED <<counterLock, instants, handler, phase, loaded, bytesFile,
                   wbytes, aofTemp, rdbTemp, expectLog, now, data, clientVars,
                   writer, writerLive, sync_counter, aofFile, rdbFile,
                   syncVars, rdbVars, compIdx, compSnap, budgetVars, histVars>>

\* AofManager::compact 102-104: the old BufWriter is dropped, which flushes
\* it to the file it holds, the new one is on the file at the log path,
\* and the guard is dropped at return
locks_compact_release ==
    /\ compPc = "locked"
    /\ aofFile' = Flushed(aofFile, writer, writerLive)
    /\ writer' = <<>>
    /\ writerLive' = TRUE
    /\ aofLock' = FreeLock
    /\ compPc' = "idle"
    /\ compSnap' = <<>>
    /\ ret' = NoRet
    /\ UNCHANGED <<counterLock, instants, handler, phase, loaded, bytesFile,
                   wbytes, aofTemp, rdbTemp, expectLog, now, data, clientVars,
                   sync_counter, rdbFile, syncVars, rdbVars, compIdx,
                   budgetVars, histVars>>

\* the calls of AofManager by the callers of set, on one key, and by the
\* two jobs that use the log, the jobs for ever
NextLocks ==
    \/ nops < MaxOps /\ \E c \in Clients : locks_append_call(c, 1, None)
    \/ \E c \in Clients : locks_append_writer(c)
    \/ \E c \in Clients : locks_append_counter(c)
    \/ \E c \in Clients : locks_append_release(c)
    \/ locks_sync_call
    \/ locks_sync_writer
    \/ locks_sync_release
    \/ locks_compact_call
    \/ locks_compact_writer
    \/ locks_compact_release

\* tokio runs every task that can run, and its RwLock and Mutex hand a lock
\* to their waiters in the order of their requests: a task that awaits a
\* lock which is free again and again gets it
FairLocks ==
    /\ \A c \in Clients :
          /\ SF_vars(locks_append_writer(c))
          /\ SF_vars(locks_append_counter(c))
          /\ WF_vars(locks_append_release(c))
    /\ SF_vars(locks_sync_writer)
    /\ WF_vars(locks_sync_release)
    /\ SF_vars(locks_compact_writer)
    /\ WF_vars(locks_compact_release)

SpecLocks == Init /\ [][NextLocks]_vars /\ FairLocks

\* ------------------------------------------------------------- claims
\* C1: every Table entry a get can observe was written by a set whose Set
\* record had been appended to the log writer first, also when another task
\* holds the writer lock at the moment of the set.
C1_LogBeforeVisible ==
    \A k \in Keys : data[k] # None => dataLogged[k]

\* C2: once every set call on a key has returned, the Table entry of the key
\* is the entry of the last Set record appended for the key: Table updates
\* follow the order of the log appends.
C2_TableFollowsLog ==
    \A k \in Keys :
        (~SetInFlight(k) /\ lastRec[k] # None /\ data[k] # None)
            => data[k] = lastRec[k]

\* the expiry of the entry a returned get looked at
SeenExpiry == ret.seen[1].expires_at

Before(t, entry) == entry.expires_at = None \/ t < entry.expires_at[1]

\* C4: a get that observed an expired entry never removes an entry that a
\* set installed after the observation: what it removes is the entry it
\* observed, or an entry that has expired as well.
C4_RemoveOnlyObserved ==
    (ret.op = "get" /\ ret.removed # None /\ ret.removed # ret.seen)
        => ~Before(now, ret.removed[1])

\* C5, first half: a get on a key that held a non-expired value, running
\* while a set on the key runs, never returns absent.
C5_NeverAbsentDuringSet ==
    (ret.op = "get" /\ ret.seen = None /\ ret.result = None)
        => ~\E c \in Clients :
               /\ pc[c] = "l_insert"
               /\ req[c].key = ret.key
               /\ req[c].old # None
               /\ Before(now, req[c].old[1])

\* C5, second half: once a set on a key has returned, a later get with no
\* set on the key in between returns the set's value until the entry expires.
C5_ReadsLastSet ==
    (ret.op = "get" /\ ret.base # None /\ ret.base[1].known
        /\ ret.base[1].entry # None
        /\ Before(ret.at, ret.base[1].entry[1]))
        => ret.result = Some(ret.base[1].entry[1].value)

\* C5: single-key set and get are linearizable.
C5_Linearizable == C5_NeverAbsentDuringSet /\ C5_ReadsLastSet

\* C6: after two sets without expiry on a key by one caller, and whatever
\* other callers do on other keys, the caller's get returns the value of the
\* second set, and the Table holds that entry for the key.
C6_Overwrite ==
    (ret.op = "get" /\ solo[ret.key].users = {ret.client}
        /\ solo[ret.key].plain >= 2)
        => /\ lastRet[ret.key].known
           /\ lastRet[ret.key].entry # None
           /\ ret.result = Some(lastRet[ret.key].entry[1].value)
           /\ data[ret.key] = lastRet[ret.key].entry

\* the caller's get returns after its two sets while another caller's set on
\* another key is between its append and its insert
C6_Witness ==
    /\ ret.op = "get"
    /\ solo[ret.key].users = {ret.client}
    /\ solo[ret.key].plain >= 2
    /\ ret.result # None
    /\ \E c \in Clients \ {ret.client} :
           pc[c] = "insert" /\ req[c].key # ret.key

\* C7: after set(k, v, ttl T) at t0 and no later set on k, a get before
\* t0+T returns v, a get after t0+T returns absent and leaves the Table
\* without an entry for k, and after a get has returned absent every later
\* get returns absent.
C7_ExpiryMonotone ==
    (ret.op = "get" /\ ret.base # None /\ ret.base[1].known)
        => LET e == ret.base[1].entry
           IN IF e = None THEN ret.result = None
              ELSE IF e[1].expires_at = None THEN TRUE
              ELSE IF ret.at < e[1].expires_at[1]
                   THEN ret.result = Some(e[1].value)
              ELSE IF ret.at > e[1].expires_at[1]
                   THEN ret.result = None /\ data[ret.key] = None
              ELSE TRUE

\* the entries of a Table that are still valid at time t
StillValid(table, t) ==
    [k \in Keys |->
        IF table[k] # None /\ IsLive(table[k][1].expires_at, t)
        THEN table[k] ELSE None]

\* C8: a restart after a crash yields the Table of the last completed log
\* sync: the same keys, values and still-valid expiries.
C8_CrashReplay ==
    [][crashes' # crashes => data' = StillValid(tableAtSync, now)]_vars

\* the last record of key k in a sequence of operations, if any
RECURSIVE LastRecord(_, _)
LastRecord(ops, k) ==
    IF ops = <<>> THEN None
    ELSE IF ops[Len(ops)].key = k THEN Some(ops[Len(ops)])
    ELSE LastRecord(SubSeq(ops, 1, Len(ops) - 1), k)

\* what replay owes key k: the entry of its last record, when that is a Set
\* whose expiry has not elapsed
LastSetOrAbsent(ops, k, t) ==
    LET r == LastRecord(ops, k)
    IN IF r # None /\ r[1].op = "Set" /\ IsLive(r[1].expires_at, t)
       THEN Some(ValueEntry(r[1].value, r[1].expires_at))
       ELSE None

\* C9: replaying a log onto an empty Table leaves every key with the value of
\* its last Set record, or without an entry when that record has expired;
\* never with the value of an earlier record.
C9_ReplayLastRecord ==
    [][(crashes' # crashes /\ rdbFile = <<>>)
          => \A k \in Keys : data'[k] = LastSetOrAbsent(aofFile, k, now)]_vars

\* C10: a set that returned before compaction copied the Table, that no later
\* set on its key supersedes and that has not expired, is in the log that
\* compaction leaves: replaying that log yields its value.
C10_CompactionKeepsSets ==
    compPc = "renamed"
        => \A k \in Keys :
               (compBase[k] # None /\ Before(now, compBase[k][1]))
                   => ReplayOps(EmptyTable, aofFile, now)[k] = compBase[k]

\* what a restart at time t would load from the files as they are
Restarted(t) == load_persistent_data(rdbFile, aofFile, t)

\* C11: a set that returned during a compaction, after the compaction copied
\* the Table, is in the log once the compaction has finished and a sync has
\* completed: a restart recovers it.
C11_SetDuringCompactionKept ==
    \A k \in Keys :
        (/\ compPc = "idle" /\ writerLive
         /\ aofLock = FreeLock /\ writer = <<>>
         /\ ~SetInFlight(k)
         /\ lastRet[k].known /\ lastRet[k].entry # None
         /\ lastRec[k] = lastRet[k].entry
         /\ data[k] = lastRet[k].entry
         /\ tableAtSync[k] = data[k]
         /\ Before(now, data[k][1]))
            => Restarted(now)[k] = data[k]

C15_CompactedLogThenAppends ==
    (expectLog.state = "known" /\ aofLock = FreeLock)
        => Flushed(aofFile, writer, writerLive) = expectLog.log

\* s is a prefix of t
IsPrefix(s, t) == Len(s) <= Len(t) /\ SubSeq(t, 1, Len(s)) = s

C12_LoadStopsAtIncompleteRecord ==
    (loaded.done /\ nops = 0 /\ jobs = 0)
        => loaded = OkOps(WholeOps(Len(bytesFile)))

\* the part of C12 that holds: a file that ends in fewer than four bytes of
\* a length prefix, or in no partial record at all
TailBytes == Len(bytesFile) - Len(Frames(WholeOps(Len(bytesFile))))
C12_CutPrefixOnly ==
    (loaded.done /\ nops = 0 /\ jobs = 0 /\ TailBytes < 4)
        => loaded = OkOps(WholeOps(Len(bytesFile)))

\* the length prefix a client has written while its payload is still to come
PartialFrame ==
    IF \E c \in Clients : pc[c] = "f_payload"
    THEN to_le_bytes(Len(serialize(AppendOp(
             CHOOSE c \in Clients : pc[c] = "f_payload"))))
    ELSE <<>>

StartupOps ==
    [i \in 1..Len(rdbFile) |-> SetOp(rdbFile[i].key, rdbFile[i].entry)]
        \o aofFile

\* the operations among them that are not a Set whose expiry is before time t
NotExpiredBefore(ops, t) ==
    SelectSeq(ops, LAMBDA o : \/ o.op = "Delete"
                              \/ o.expires_at = None
                              \/ ~(o.expires_at[1] < t))

\* the entry of key k after the inserts and removes of the operations
AfterOps(ops, k) ==
    LET r == LastRecord(ops, k)
    IN IF r # None /\ r[1].op = "Set"
       THEN Some(ValueEntry(r[1].value, r[1].expires_at))
       ELSE None

\* C17: when loading has finished the Table holds no entry whose expiry is
\* before the clock of the load; the snapshot entries and logged Sets with
\* such an expiry were discarded and all others inserted unchanged, in the
\* order of the files.
C17_NoExpiredAfterLoad ==
    phase = "loaded"
        => \A k \in Keys :
               /\ data[k] # None => Before(now, data[k][1])
                                    \/ data[k][1].expires_at = Some(now)
               /\ data[k] = AfterOps(NotExpiredBefore(StartupOps, now), k)

\* a load at time 1 of a snapshot and a log that both hold an entry expired
\* at time 0 and entries that are not
C17_Witness ==
    /\ phase = "loaded"
    /\ now = 1
    /\ \E i \in 1..Len(rdbFile) : rdbFile[i].entry.expires_at = Some(0)
    /\ \E i \in 1..Len(aofFile) :
          aofFile[i].op = "Set" /\ aofFile[i].expires_at = Some(0)
    /\ \A k \in Keys : data[k] # None

\* C18: startup applies the snapshot, then the log in append order, and
\* starts the jobs after both: no job has run before the load is complete,
\* and for a key of the snapshot that the log has too the last log record of
\* the key decides its Table entry.
C18_SnapshotThenLogThenJobs ==
    /\ phase # "running"
          => jobs = 0 /\ syncPc = "idle" /\ rdbPc = "idle" /\ compPc = "idle"
    /\ phase = "new" => data = EmptyTable
    /\ phase = "loaded"
          => \A k \in Keys :
                 (/\ \E i \in 1..Len(rdbFile) : rdbFile[i].key = k
                  /\ LastRecord(aofFile, k) # None)
                     => data[k] = LastSetOrAbsent(aofFile, k, now)

\* the order of C18 alone: no job before the load is complete, and the log
\* applied onto the Table that the snapshot made
C18_OrderOnly ==
    /\ phase # "running"
          => jobs = 0 /\ syncPc = "idle" /\ rdbPc = "idle" /\ compPc = "idle"
    /\ phase = "new" => data = EmptyTable
    /\ phase = "loaded"
          => data = ReplayOps(LoadSnapshot(EmptyTable, rdbFile, now),
                              aofFile, now)

\* the expiry of key k's entry has elapsed
Elapsed(k) ==
    /\ data[k] # None
    /\ data[k][1].expires_at # None
    /\ data[k][1].expires_at[1] < now

\* C19: with the jobs scheduled fairly, an entry whose expiry has elapsed is
\* eventually removed from the Table, also when no get asks for its key.
C19_ExpiredEventuallyRemoved ==
    \A k \in Keys : [](Elapsed(k) => <>(data[k] = None))

\* C20: a job iteration that fails with an I/O error stops no job and no
\* client: the job is back at the start of its loop, the writer lock is
\* free for the clients, and while no compaction runs the file that the
\* clients' appends are flushed to is the file at the log path, the one a
\* restart reads.
C20_FailedJobLeavesLogWritable ==
    /\ (\A c \in Clients : pc[c] = "idle") => aofLock = FreeLock
    /\ compPc = "idle" => writerLive

\* the snapshot file or a whole record of the log file does not deserialize
PersistedStateCorrupt ==
    \/ ~SnapshotDeserializes(rdbFile)
    \/ \E i \in 1..Len(aofFile) : ~OpDeserializes(aofFile[i])

\* C21: when the snapshot file or a whole log record cannot be
\* deserialized, startup fails: the load never completes and the storage
\* engine never serves a Table made of a part of the persisted state.
C21_CorruptStateAbortsStartup ==
    PersistedStateCorrupt => phase \notin {"loaded", "running"}

FailedSetReply == ErrorReply("ERR failed to set value")

\* C22: when the log append of a set fails, the Table is left as it was,
\* execute answers Error("ERR failed to set value"), and the handler does
\* not leave its loop because of it: it writes the reply and reads on.
C22_FailedAppendIsAnErrorReply ==
    [][/\ ret'.op = "set_err" => data' = data
       /\ ret.op = "set_err" =>
             /\ data' = data
             /\ handler'[ret.client].at = "reply"
             /\ handler'[ret.client].value = FailedSetReply
       /\ \A c \in Conns :
             (handler[c].at = "reply" /\ handler[c].value = FailedSetReply) =>
                \/ handler'[c].at \in {"reply", "written"}
                \/ handler'[c].value.kind = "WriteError"]_vars

\* the error reply of a failed set was written and the handler is back at
\* its read, the Table without the entry whose record the writer took
C22_Witness ==
    \E c \in Conns :
        /\ handler[c].at = "written"
        /\ handler[c].value = FailedSetReply
        /\ \E k \in Keys : lastRec[k] # None /\ Some(lastRec[k][1]) # data[k]

\* the shapes the grammar of the commands accepts
AcceptedShapes == {"ping", "echo", "get", "set", "set_px"}

\* C23: Command::from_resp makes a command of a request exactly when its
\* name and argument count are of the grammar: PING with no argument, ECHO
\* and GET with one, SET with two or with four of which the third is PX and
\* the fourth a non-negative number; anything else is a CommandError.
C23_ArityChecked ==
    \A c \in Conns :
        (handler[c].at = "command" /\ handler[c].request.framing = "ok") =>
            (handler[c].value.kind # "CommandError"
                <=> handler[c].request.shape \in AcceptedShapes)

\* C24: Resp::parse returns none for the empty buffer and a ProtocolError,
\* never a request, for a buffer of malformed framing: a first byte that is
\* not '*', a count that is no number, fewer elements than the count, an
\* element without the '$' tag, a bulk length that is no number or that is
\* not the length of the bulk string.
C24_MalformedFramingRejected ==
    \A c \in Conns :
        handler[c].at = "decoded" =>
            /\ handler[c].request.framing = "empty"
                  => handler[c].value = NoResp
            /\ handler[c].request.framing \notin {"ok", "empty"}
                  => handler[c].value.kind = "ProtocolError"

\* the reply owed to a get that returned r: the value of the entry it saw,
\* unless it saw none or an expired one
GetReply(r) ==
    IF r.seen # None /\ ~IsExpired(r.seen[1], r.at)
    THEN BulkString(Numeral(r.seen[1].value))
    ELSE Null

\* the entry of the last set on the key that returned Ok before the get r
\* was called, unless a get has found the key absent or expired since
LastSet(r) == r.base[1].entry

\* C25: the reply to Get(k) is BulkString(v) exactly when the Table holds an
\* entry of k with value v that has not expired, and Null otherwise; on a key
\* that only this connection uses that entry is the one of the last Set
\* that was answered OK.  A Set that storage accepted is answered OK, Ping
\* PONG, and Echo(m) m.
C25_RepliesFollowTable ==
    [][/\ ret.op = "get" =>
            /\ handler'[ret.client].value = GetReply(ret)
            /\ solo[ret.key].users \subseteq {ret.client} =>
                  IF LastSet(ret) # None /\ ~IsExpired(LastSet(ret)[1], ret.at)
                  THEN ret.seen = LastSet(ret)
                  ELSE GetReply(ret) = Null
       /\ ret.op = "set" =>
             handler'[ret.client].value = SimpleString(<<"O", "K">>)
       /\ \A c \in Conns :
             (handler[c].at = "command" /\ handler'[c].at = "reply") =>
                /\ handler[c].value.kind = "Ping" =>
                      handler'[c].value = SimpleString(<<"P", "O", "N", "G">>)
                /\ handler[c].value.kind = "Echo" =>
                      handler'[c].value = SimpleString(<<"h", "e", "y">>)]_vars

\* a Get is answered with the value of the second of two Sets on its key
C25_Witness ==
    \E c \in Conns :
        /\ handler[c].at = "reply"
        /\ handler[c].request.shape = "get"
        /\ handler[c].value.kind = "BulkString"
        /\ \E k \in Keys :
              /\ handler[c].request.bytes = Encode(<<wGET, KeyName(k)>>)
              /\ solo[k].plain = 2
              /\ handler[c].value.text = Numeral(data[k][1].value)

\* the reply in the handler's hands was made of a request that failed to
\* decode or to parse
IsRequestError(response) ==
    /\ response.kind = "Error"
    /\ response.text[1] \in {"Protocol error: ", "Command error: ",
                             "Empty request"}

C27_PointInTimeCopy ==
    /\ (rdbPc = "iter" /\ rdbIdx = NumKeys) => instants.rdb # {}
    /\ (compPc = "iter" /\ compIdx = NumKeys) => instants.comp # {}

\* what get returns for key k on a Table at time t
GetWould(table, k, t) ==
    IF table[k] = None \/ IsExpired(table[k][1], t) THEN None
    ELSE Some(table[k][1].value)

\* C28: a sweep removes exactly the entries that get would treat as expired
\* and leaves every other entry as it was, so that get returns for any key
\* what it would have returned without the sweep.
C28_SweepAgreesWithGet ==
    [][cleanup_expired_keys =>
          \A k \in Keys :
              /\ data'[k] = IF data[k] # None /\ IsExpired(data[k][1], now)
                            THEN None ELSE data[k]
              /\ GetWould(data', k, now) = GetWould(data, k, now)]_vars

\* the expired entry of key 1 from the prior log is gone by a sweep (the one
\* call made is a set on key 2, and there was no crash), next to an entry
\* that is at the instant of its expiry
C28_Witness ==
    /\ crashes = 0
    /\ \A c \in Clients : pc[c] = "idle"
    /\ nops = 1
    /\ data[1] = None
    /\ lastRet[1].entry # None
    /\ data[2] # None
    /\ data[2][1].expires_at = Some(now)

\* a call of the log is under way
AppendRunning(c) == pc[c] \in {"a_first", "a_second", "a_locked"}

\* C29: the locks of the log cannot deadlock.  The counter lock is only held
\* by the holder of the writer lock, and under fair scheduling every call of
\* append, sync and compact returns and every lock is released.
C29_LogLocksDeadlockFree ==
    /\ [](counterLock # FreeLock => aofLock = counterLock)
    /\ \A c \in Clients : AppendRunning(c) ~> pc[c] = "idle"
    /\ (syncPc # "idle") ~> (syncPc = "idle")
    /\ (compPc # "idle") ~> (compPc = "idle")
    /\ (aofLock # FreeLock) ~> (aofLock = FreeLock)
    /\ (counterLock # FreeLock) ~> (counterLock = FreeLock)

\* one append holds both locks while the other append, the sync and the
\* compaction await the writer lock
C29_Witness ==
    /\ pc[1] = "a_locked"
    /\ counterLock = ClientLock(1)
    /\ Awaited(2) = "writer"
    /\ syncPc = "await"
    /\ compPc = "renamed"

====
